---- MODULE Spec2Model ----
(***************************************************************************)
(* Model of the client-side session / token-refresh pipeline (lib/api.ts,  *)
(* lib/auth-context.tsx) and of the cached community listing hook          *)
(* (hooks/use-communities.ts) of the Padosi super-admin portal.            *)
(*                                                                         *)
(* One JavaScript task (a network response being handled, a timer firing,  *)
(* a UI event) together with the microtasks it queues is one step.         *)
(***************************************************************************)
EXTENDS Integers, Sequences, FiniteSets, TLC

(***************************************************************************)
(* Bounds of the model.                                                    *)
(***************************************************************************)
MaxRequests == 2
MaxCallers == 2
MaxNow == 46000
MaxLoads == 2
MaxMore == 2
MaxId == 2
MaxPageLen == 2
MaxMergeId == 3
MaxMergeLen == 2
MaxEffects == 2
MaxInFlight == 2

Slots == 1..MaxRequests
Callers == 1..MaxCallers
Ids == 1..MaxId

(***************************************************************************)
(* Program constants.                                                      *)
(***************************************************************************)
RecoverableCode == 419
FatalCode == 498
CACHE_TTL_MS == 30000
DefaultLimit == 12
AUTH_STORAGE_KEY == "AUTH_STORAGE_KEY"
AUTH_UPDATED == "padosi-auth-updated"
FORCE_LOGOUT == "padosi-force-logout"

(***************************************************************************)
(* JavaScript values.                                                      *)
(***************************************************************************)
Undefined == "<undefined>"
NullTok == "<null>"
Null == [null |-> TRUE]
EmptyStorage == [k \in {} |-> Null]

\* s.trim() is empty
IsBlank(s) == s \in {"", " "}
\* !s for a string-or-undefined value
Falsy(s) == s \in {"", Undefined, NullTok}
\* a ?? b
Coalesce(a, b) == IF a \in {Undefined, NullTok} THEN b ELSE a
\* obj.f, undefined when the property is absent
Field(obj, f) == IF f \in DOMAIN obj THEN obj[f] ELSE Undefined

(***************************************************************************)
(* What the backend can answer.  A LoginData bundle is what                *)
(* normalizeLoginData returns; the login and refresh endpoints send it in  *)
(* one of the two accepted shapes, or send a body without tokens.          *)
(***************************************************************************)
LoginData(a, r, e, f) ==
  [accessToken |-> a, refreshToken |-> r,
   accessTokenExpiresAt |-> e, refreshTokenExpiresAt |-> f]

Bundles ==
  { LoginData("A1", "R1", "E1", "F1"),
    LoginData("A2", "R2", "E2", "F2") }

CamelRoot(b) == b
SnakeNested(b) ==
  [data |-> [access_token |-> b.accessToken, refresh_token |-> b.refreshToken,
             access_token_expires_at |-> b.accessTokenExpiresAt,
             refresh_token_expires_at |-> b.refreshTokenExpiresAt]]
NoTokenBody == [message |-> "m"]

PayloadCodes == {RecoverableCode, FatalCode, 200}

\* a response: application code of the payload, response.ok, the transport
\* status and the body.  The login endpoint issues the first bundle and the
\* refresh endpoint the second, each in either shape.  A body with tokens
\* is read only from an ok answer without the fatal code, so the other
\* answers are drawn with a body without tokens.
Responses(kind) ==
  LET b == IF kind = "login" THEN LoginData("A1", "R1", "E1", "F1")
                             ELSE LoginData("A2", "R2", "E2", "F2")
  IN { resp \in [code : PayloadCodes, ok : BOOLEAN, status : {200, 500},
                 body : IF kind = "api" THEN {NoTokenBody}
                        ELSE {CamelRoot(b), SnakeNested(b), NoTokenBody}] :
         /\ resp.ok = (resp.status \in 200..299)
         /\ resp.body # NoTokenBody => (resp.ok /\ resp.code # FatalCode) }

\* variant: the code is read from ok answers only
getPayloadCode_whenOk(resp) == IF resp.ok THEN resp.code ELSE 0

\* getPayloadCode: the code field of the payload, whatever the status
getPayloadCode(resp) == resp.code

\* variant: a blank message is returned as it is
getErrorMessage_anyString(payload, fallback) ==
  LET maybeMessage == Field(payload, "message")
  IN IF payload # Null /\ maybeMessage \notin {Undefined, NullTok, "number:17"}
       THEN maybeMessage ELSE fallback

\* getErrorMessage: the payload's message when it is a non-blank string
getErrorMessage(payload, fallback) ==
  LET maybeMessage == Field(payload, "message")
  IN IF payload # Null /\ maybeMessage \notin {Undefined, NullTok, "number:17"}
        /\ ~IsBlank(maybeMessage)
       THEN maybeMessage ELSE fallback

\* answers to a bearer call whose failed ones vary in status and message:
\* a message, a blank one, one that is no string, none, and a payload that
\* is null (an empty text body), which has no code.  The body of an ok
\* answer to a bearer call is returned unread; the second failure status is
\* drawn with the bodies whose message is not used, where the status shows
\* in the error.
FailureResponses ==
  { resp \in [code : PayloadCodes, ok : BOOLEAN, status : {200, 404, 500},
              body : {[message |-> "m"], [message |-> " "],
                      [message |-> "number:17"], [success |-> FALSE], Null}] :
      /\ resp.ok = (resp.status \in 200..299)
      /\ resp.ok => resp.body = NoTokenBody
      /\ resp.body = Null => resp.code = 200
      /\ (resp.code = FatalCode /\ ~resp.ok) => resp.body = [success |-> FALSE]
      /\ resp.status = 404
           => (resp.code # FatalCode
                 /\ resp.body \in {[message |-> " "], [success |-> FALSE]}) }

(***************************************************************************)
(* normalizeLoginData: Null stands for the thrown error.  An expiry may be *)
(* a number; "number:17" stands for the number 17.                         *)
(***************************************************************************)
\* String(x) for a string or a number
String(x) == IF x = "number:17" THEN "17" ELSE x

\* variant: only the camelCase names are read
normalizeLoginData_camelOnly(payload) ==
  LET raw == IF "data" \in DOMAIN payload THEN payload.data ELSE payload
      accessToken == Field(raw, "accessToken")
      refreshToken == Field(raw, "refreshToken")
      accessTokenExpiresAt == Field(raw, "accessTokenExpiresAt")
      refreshTokenExpiresAt == Field(raw, "refreshTokenExpiresAt")
  IN IF Falsy(accessToken) \/ Falsy(refreshToken)
       THEN Null
       ELSE LoginData(accessToken, refreshToken,
                      IF accessTokenExpiresAt \notin {Undefined, NullTok}
                        THEN String(accessTokenExpiresAt) ELSE "",
                      IF refreshTokenExpiresAt \notin {Undefined, NullTok}
                        THEN String(refreshTokenExpiresAt) ELSE "")

normalizeLoginData(payload) ==
  LET raw == IF "data" \in DOMAIN payload THEN payload.data ELSE payload
      accessToken == Coalesce(Field(raw, "accessToken"), Field(raw, "access_token"))
      refreshToken == Coalesce(Field(raw, "refreshToken"), Field(raw, "refresh_token"))
      accessTokenExpiresAt ==
        Coalesce(Field(raw, "accessTokenExpiresAt"), Field(raw, "access_token_expires_at"))
      refreshTokenExpiresAt ==
        Coalesce(Field(raw, "refreshTokenExpiresAt"), Field(raw, "refresh_token_expires_at"))
  IN IF Falsy(accessToken) \/ Falsy(refreshToken)
       THEN Null
       ELSE LoginData(accessToken, refreshToken,
                      IF accessTokenExpiresAt \notin {Undefined, NullTok}
                        THEN String(accessTokenExpiresAt) ELSE "",
                      IF refreshTokenExpiresAt \notin {Undefined, NullTok}
                        THEN String(refreshTokenExpiresAt) ELSE "")

VARIABLES
  \* lib/auth-context.tsx, AuthProvider
  mounted, tokens, isLoggingOut, logoutTimer,
  \* browser
  cookie, sessionStorage,
  \* lib/api.ts module state
  volatileRefreshToken, refreshInFlight,
  \* the request() calls in progress
  reqs,
  \* the window events dispatched by the last step, in order
  dispatched,
  \* for each of them, what was in place when it was dispatched
  delivered,
  \* the application code of the answer of the single-flight refresh call, if
  \* the last step handled it (0 otherwise)
  refreshAnswer,
  \* hooks/use-communities.ts module state and Date.now()
  now, communitiesCache, communitiesInFlight,
  \* the fetchWithCache calls in progress, the fetchCommunities promises, and
  \* the parameter sets the callers use
  callers, fetches, paramSets,
  \* what the last step did: the fetchWithCache invocation made and the
  \* outcomes handed to callers; when each key's network call was issued
  invoked, returned, issuedAt,
  \* hooks/use-communities.ts, useCommunities: state, the ref, and the
  \* pending initial loads and loadMore calls
  communities, nextCursor, isLoading, isLoadingMore, loadSeq, loads, mores,
  \* a page applied since the list was last replaced repeated an id; the last
  \* step merged a page that overlapped the held list
  dupPage, overlapMerged,
  \* history of the hook: the loadMore calls made before the initial-load
  \* effect last ran, and whether the last step handled the answer of an
  \* initial load that was not the most recent
  staleMores, staleDropped,
  \* the call of a pure function under examination and what it returned
  fnCall, fnResult,
  \* the browser's navigation: the pathname, and whether it is being
  \* requested or its page is shown
  location,
  \* components/community-list.tsx, CommunityList: state
  communityCount, statusOverrides, statusUpdatingMap,
  \* the handleToggleCommunityStatus calls awaiting their response, the runs
  \* of the count effect with their closures, and the toast the last step
  \* showed
  toggles, countEffects, toast

authVars == <<mounted, tokens, isLoggingOut, logoutTimer, cookie, sessionStorage,
              volatileRefreshToken, refreshInFlight, reqs, dispatched, delivered,
              refreshAnswer>>

cacheVars == <<now, communitiesCache, communitiesInFlight, callers, fetches,
               paramSets, invoked, returned, issuedAt>>

hookVars == <<communities, nextCursor, isLoading, isLoadingMore, loadSeq,
              loads, mores, dupPage, overlapMerged, staleMores, staleDropped>>

fnVars == <<fnCall, fnResult>>

listVars == <<communityCount, statusOverrides, statusUpdatingMap, toggles,
              countEffects, toast>>

uiVars == <<location, listVars>>

vars == <<authVars, cacheVars, hookVars, fnVars, uiVars>>

(***************************************************************************)
(* The memory touched by the auth helpers, threaded through them in the    *)
(* order the code calls them.                                              *)
(***************************************************************************)
Mem ==
  [volatileRefreshToken |-> volatileRefreshToken, sessionStorage |-> sessionStorage,
   tokens |-> tokens, cookie |-> cookie, isLoggingOut |-> isLoggingOut,
   dispatched |-> <<>>, delivered |-> <<>>, refreshAnswer |-> 0]

Commit(m) ==
  /\ volatileRefreshToken' = m.volatileRefreshToken
  /\ sessionStorage' = m.sessionStorage
  /\ tokens' = m.tokens
  /\ cookie' = m.cookie
  /\ isLoggingOut' = m.isLoggingOut
  /\ dispatched' = m.dispatched
  /\ delivered' = m.delivered
  /\ refreshAnswer' = m.refreshAnswer

setItem(storage, key, value) ==
  [k \in DOMAIN storage \cup {key} |-> IF k = key THEN value ELSE storage[k]]

removeItem(storage, key) ==
  [k \in DOMAIN storage \ {key} |-> storage[k]]

\* variant: null does not clear the token
setRefreshToken_keepOnNull(m, refreshToken) ==
  [m EXCEPT !.volatileRefreshToken =
     IF refreshToken \notin {Undefined, NullTok} /\ ~IsBlank(refreshToken)
       THEN refreshToken ELSE @]

setRefreshToken(m, refreshToken) ==
  [m EXCEPT !.volatileRefreshToken =
     IF refreshToken \notin {Undefined, NullTok} /\ ~IsBlank(refreshToken)
       THEN refreshToken ELSE NullTok]

\* variant: a token is reported even when none is held
readStoredRefreshToken_stale(m) == "R1"

readStoredRefreshToken(m) == m.volatileRefreshToken

StoredAuthSession(t) ==
  [accessToken |-> t.accessToken,
   accessTokenExpiresAt |-> t.accessTokenExpiresAt,
   refreshTokenExpiresAt |-> t.refreshTokenExpiresAt]

\* variant: the whole token object is serialised
persistAuthSession_full(m, t) ==
  [m EXCEPT !.sessionStorage = setItem(@, AUTH_STORAGE_KEY, t)]

persistAuthSession(m, t) ==
  [m EXCEPT !.sessionStorage = setItem(@, AUTH_STORAGE_KEY, StoredAuthSession(t))]

writeAuthStateCookie(m) == [m EXCEPT !.cookie = TRUE]
clearAuthStateCookie(m) == [m EXCEPT !.cookie = FALSE]

\* the listeners AuthProvider registers in its mount effect
onAuthUpdated(m, detail) ==
  IF ~Falsy(detail.accessToken) THEN [m EXCEPT !.tokens = detail] ELSE m

\* variant: the cookie is left in place
onForceLogout_keepsCookie(m) ==
  LET m1 == [m EXCEPT !.tokens = Null]
      m2 == setRefreshToken(m1, NullTok)
      m4 == [m2 EXCEPT !.sessionStorage = removeItem(@, AUTH_STORAGE_KEY)]
  IN [m4 EXCEPT !.isLoggingOut = FALSE]

onForceLogout(m) ==
  LET m1 == [m EXCEPT !.tokens = Null]
      m2 == setRefreshToken(m1, NullTok)
      m3 == clearAuthStateCookie(m2)
      m4 == [m3 EXCEPT !.sessionStorage = removeItem(@, AUTH_STORAGE_KEY)]
  IN [m4 EXCEPT !.isLoggingOut = FALSE]

\* window.dispatchEvent: listeners run synchronously, if registered
dispatchEvent(m, name, detail) ==
  LET m1 == [m EXCEPT !.dispatched = Append(@, name),
                      !.delivered =
                        Append(@, [name |-> name, detail |-> detail,
                                   storage |-> m.sessionStorage,
                                   refreshToken |-> m.volatileRefreshToken,
                                   cookie |-> m.cookie,
                                   handled |-> mounted])]
  IN IF ~mounted THEN m1
     ELSE IF name = AUTH_UPDATED THEN onAuthUpdated(m1, detail)
     ELSE onForceLogout(m1)

\* variant: the event is dispatched before the session is stored
storeAuthTokens_dispatchFirst(m, t) ==
  LET m1 == dispatchEvent(m, AUTH_UPDATED, t)
      m2 == setRefreshToken(m1, t.refreshToken)
  IN persistAuthSession(m2, t)

storeAuthTokens(m, t) ==
  LET m1 == setRefreshToken(m, t.refreshToken)
      m2 == persistAuthSession(m1, t)
  IN dispatchEvent(m2, AUTH_UPDATED, t)

\* variant: the state is cleared but no event is dispatched
forceLogoutFromApi_noEvent(m) ==
  LET m1 == setRefreshToken(m, NullTok)
  IN [m1 EXCEPT !.sessionStorage = removeItem(@, AUTH_STORAGE_KEY)]

forceLogoutFromApi(m) ==
  LET m1 == setRefreshToken(m, NullTok)
      m2 == [m1 EXCEPT !.sessionStorage = removeItem(@, AUTH_STORAGE_KEY)]
  IN dispatchEvent(m2, FORCE_LOGOUT, Null)

\* AuthProvider.login
login(m, newTokens) ==
  LET m1 == [m EXCEPT !.tokens = newTokens]
      m2 == setRefreshToken(m1, newTokens.refreshToken)
      m3 == [m2 EXCEPT !.sessionStorage =
                 setItem(@, AUTH_STORAGE_KEY, StoredAuthSession(newTokens))]
  IN writeAuthStateCookie(m3)

(***************************************************************************)
(* request(): one slot per logical call.  st is "idle", "fetching" (a      *)
(* network call to the resource is pending), "refreshing" (awaiting        *)
(* refreshTokensWithLock), "resolved" or "rejected".  retryOn419 and token *)
(* are the options of the attempt in progress; calls counts the network    *)
(* calls made to the resource and code is the application code of the last *)
(* response handled (0: none yet).  startedRefresh: this call's 419 issued *)
(* the refresh HTTP call it awaits.  heldAtIssue: the call was issued      *)
(* while a refresh token was held and no refresh was in flight.            *)
(* peerRefreshed: while this call was pending on its first attempt, the    *)
(* 419 of another such call issued a refresh HTTP call.  heldAtIssue is   *)
(* kept while the first attempt is pending.                                *)
(* The token of the first attempt is not read again once the call awaits  *)
(* a refresh (the retry overrides it), so it is dropped there.             *)
(***************************************************************************)
NoPromise == "null"
Pending == "pending"

\* error: the message of the Error a rejected call threw; answer: the
\* response to this call that the step just taken handled
NoError == "<none>"
NoAnswer == [none |-> TRUE]

IdleReq ==
  [kind |-> "api", st |-> "idle", retryOn419 |-> TRUE, token |-> Undefined,
   calls |-> 0, code |-> 0, heldAtIssue |-> FALSE, startedRefresh |-> FALSE,
   peerRefreshed |-> FALSE, error |-> NoError, answer |-> NoAnswer]

Settled(r) == r.st \in {"idle", "resolved", "rejected"}
FirstAttempt(r) == r.st = "fetching" /\ r.retryOn419

\* the call has returned or thrown: its options are gone
Settle(r, st) ==
  [r EXCEPT !.st = st, !.kind = "api", !.token = Undefined,
            !.heldAtIssue = FALSE, !.startedRefresh = FALSE,
            !.peerRefreshed = FALSE]

\* throw new Error(message)
Throw(r, message) == [Settle(r, "rejected") EXCEPT !.error = message]

\* the outcome of a call that has returned is consumed by its caller in the
\* step it returns: at the next step the slot is free again, and the answer
\* a step handled is kept for that step only
Released(rs) ==
  [i \in Slots |-> IF rs[i].st \in {"resolved", "rejected"} THEN IdleReq
                   ELSE [rs[i] EXCEPT !.answer = NoAnswer]]

\* loginAdmin and refreshAuthToken are issued from the first slot only
KindsOf(i) == IF i = 1 THEN {"api", "login", "refresh"} ELSE {"api"}

InitAuth ==
  /\ mounted = FALSE
  /\ tokens = Null
  /\ isLoggingOut = FALSE
  /\ logoutTimer = FALSE
  /\ cookie = FALSE
  /\ sessionStorage = EmptyStorage
  /\ volatileRefreshToken = NullTok
  /\ refreshInFlight = NoPromise
  /\ reqs = [i \in Slots |-> IdleReq]
  /\ dispatched = <<>>
  /\ delivered = <<>>
  /\ refreshAnswer = 0

\* a stored value that is not JSON
Malformed == [malformed |-> TRUE]

\* AuthProvider mount effect: restore the session from sessionStorage
Mount ==
  /\ UNCHANGED <<cacheVars, hookVars, fnVars, uiVars>>
  /\ ~mounted
  /\ mounted' = TRUE
  /\ LET m == Mem
         has == AUTH_STORAGE_KEY \in DOMAIN sessionStorage
         parsed == sessionStorage[AUTH_STORAGE_KEY]
     IN IF has /\ parsed = Malformed
          \* JSON.parse throws: the catch removes the record
          THEN Commit([m EXCEPT !.sessionStorage = removeItem(@, AUTH_STORAGE_KEY)])
        ELSE IF has /\ ~IsBlank(parsed.accessToken)
          THEN Commit(writeAuthStateCookie(
                 [m EXCEPT !.tokens =
                    LoginData(parsed.accessToken, "",
                              parsed.accessTokenExpiresAt,
                              parsed.refreshTokenExpiresAt)]))
          ELSE Commit(m)
  /\ reqs' = Released(reqs)
  /\ UNCHANGED <<logoutTimer, refreshInFlight>>

\* a caller invokes request(): loginAdmin, refreshAuthToken or a bearer call
StartRequest(i, kind) ==
  /\ UNCHANGED <<cacheVars, hookVars, fnVars, uiVars>>
  /\ mounted
  /\ Settled(reqs[i])
  /\ reqs' = [Released(reqs) EXCEPT ![i] =
                [IdleReq EXCEPT
                   !.kind = kind, !.st = "fetching", !.calls = 1,
                   !.heldAtIssue = (volatileRefreshToken # NullTok
                                      /\ refreshInFlight = NoPromise),
                   !.token = IF kind = "api" /\ tokens # Null
                               THEN tokens.accessToken ELSE Undefined]]
  /\ dispatched' = <<>>
  /\ delivered' = <<>>
  /\ refreshAnswer' = 0
  /\ UNCHANGED <<mounted, tokens, isLoggingOut, logoutTimer, cookie, sessionStorage,
                 volatileRefreshToken, refreshInFlight>>

\* variant: the in-flight slot is not consulted
refreshTokensWithLock_noLock(inFlight) ==
  [promise |-> Pending, fetched |-> TRUE]

\* refreshTokensWithLock up to its first await: the promise returned and
\* whether this invocation issued the fetch to the refresh endpoint
refreshTokensWithLock(inFlight) ==
  IF inFlight = NoPromise
    THEN [promise |-> Pending, fetched |-> TRUE]
    ELSE [promise |-> inFlight, fetched |-> FALSE]

\* what the caller of request() does with the resolved value
OnResolved(m, kind, body) ==
  LET data == normalizeLoginData(body)
  IN IF kind = "api" THEN [m |-> m, st |-> "resolved", error |-> NoError]
     ELSE IF data = Null
       THEN [m |-> m, st |-> "rejected",
             error |-> "Login response does not include tokens"]
     ELSE IF kind = "login"
       THEN [m |-> login(m, data), st |-> "resolved", error |-> NoError]
     ELSE [m |-> persistAuthSession(setRefreshToken(m, data.refreshToken), data),
           st |-> "resolved", error |-> NoError]

\* the response of a pending network call of request() is handled
RequestResponse(i, resp) ==
  LET r == [reqs[i] EXCEPT !.code = resp.code, !.answer = resp]
  IN
  /\ reqs[i].st = "fetching"
  /\ UNCHANGED <<mounted, logoutTimer, cacheVars, hookVars, fnVars, uiVars>>
  /\ IF getPayloadCode(resp) = FatalCode THEN
       /\ Commit(forceLogoutFromApi(Mem))
       /\ reqs' = [Released(reqs) EXCEPT ![i] =
                     Throw(r, getErrorMessage(resp.body,
                                "Session invalid. Please log in again."))]
       /\ UNCHANGED refreshInFlight
     ELSE IF r.retryOn419 /\ getPayloadCode(resp) = RecoverableCode THEN
       IF readStoredRefreshToken(Mem) = NullTok THEN
         /\ Commit(Mem)
         /\ reqs' = [Released(reqs) EXCEPT ![i] =
                       Throw(r, getErrorMessage(resp.body,
                                  "Session expired. Please log in again."))]
         /\ UNCHANGED refreshInFlight
       ELSE
         LET lock == refreshTokensWithLock(refreshInFlight)
         IN /\ Commit(Mem)
            /\ refreshInFlight' = lock.promise
            /\ reqs' = [j \in Slots |->
                          IF j = i
                            THEN [r EXCEPT !.st = "refreshing",
                                           !.token = Undefined,
                                           !.startedRefresh = lock.fetched,
                                           !.heldAtIssue = FALSE,
                                           !.peerRefreshed = FALSE]
                          ELSE IF lock.fetched /\ r.heldAtIssue
                                  /\ FirstAttempt(reqs[j]) /\ reqs[j].heldAtIssue
                            THEN [Released(reqs)[j] EXCEPT !.peerRefreshed = TRUE]
                          ELSE Released(reqs)[j]]
     ELSE IF ~resp.ok THEN
       /\ Commit(Mem)
       /\ reqs' = [Released(reqs) EXCEPT ![i] =
                     Throw(r, getErrorMessage(resp.body,
                                IF resp.status = 404
                                  THEN "Request failed with status 404"
                                ELSE IF resp.status = 500
                                  THEN "Request failed with status 500"
                                ELSE "Request failed with status 200"))]
       /\ UNCHANGED refreshInFlight
     ELSE
       LET res == OnResolved(Mem, r.kind, resp.body)
       IN /\ Commit(res.m)
          /\ reqs' = [Released(reqs) EXCEPT ![i] =
                        [Settle(r, res.st) EXCEPT !.error = res.error]]
          /\ UNCHANGED refreshInFlight

\* variant: the call is sent again with the options it was given
Retry_sameOptions(r, refreshedTokens) ==
  [r EXCEPT !.st = "fetching", !.calls = @ + 1, !.heldAtIssue = FALSE,
            !.startedRefresh = FALSE]

\* the retry request() issues once the awaited refresh has resolved
Retry(r, refreshedTokens) ==
  [r EXCEPT !.st = "fetching", !.token = refreshedTokens.accessToken,
            !.retryOn419 = FALSE, !.calls = @ + 1, !.heldAtIssue = FALSE,
            !.startedRefresh = FALSE]

\* variant: the slot is released in a then, so a failed refresh leaves it set
SlotAfterSettle_thenOnly(ok) == IF ok THEN NoPromise ELSE Pending

\* the finally clause of the refresh promise
SlotAfterSettle(ok) == NoPromise

\* the response of the single-flight refresh call is handled, the slot is
\* released and every call awaiting the promise continues
RefreshResponse(resp) ==
  LET tokenData == normalizeLoginData(resp.body)
      ok == resp.code # FatalCode /\ resp.ok /\ tokenData # Null
      refreshError ==
        IF resp.code = FatalCode
          THEN getErrorMessage(resp.body, "Invalid or expired refresh token")
        ELSE IF ~resp.ok
          THEN getErrorMessage(resp.body, "Refresh token failed with status 500")
        ELSE "Login response does not include tokens"
  IN
  /\ refreshInFlight = Pending
  /\ UNCHANGED <<cacheVars, hookVars, fnVars, uiVars>>
  /\ LET m == [Mem EXCEPT !.refreshAnswer = resp.code]
     IN IF resp.code = FatalCode THEN Commit(forceLogoutFromApi(m))
        ELSE IF ok THEN Commit(storeAuthTokens(m, tokenData))
        ELSE Commit(m)
  /\ refreshInFlight' = SlotAfterSettle(ok)
  /\ reqs' = [i \in Slots |->
                IF reqs[i].st # "refreshing" THEN Released(reqs)[i]
                ELSE IF ok THEN Retry(Released(reqs)[i], tokenData)
                ELSE Throw(Released(reqs)[i], refreshError)]
  /\ UNCHANGED <<mounted, logoutTimer>>

\* AuthProvider.logout up to its 300 ms timer
LogoutStart ==
  /\ UNCHANGED <<cacheVars, hookVars, fnVars, uiVars>>
  /\ mounted
  /\ ~logoutTimer
  /\ isLoggingOut' = TRUE
  /\ logoutTimer' = TRUE
  /\ dispatched' = <<>>
  /\ delivered' = <<>>
  /\ refreshAnswer' = 0
  /\ reqs' = Released(reqs)
  /\ UNCHANGED <<mounted, tokens, cookie, sessionStorage, volatileRefreshToken,
                 refreshInFlight>>

\* AuthProvider.logout after the timer
LogoutFinish ==
  /\ UNCHANGED <<cacheVars, hookVars, fnVars, uiVars>>
  /\ logoutTimer
  /\ logoutTimer' = FALSE
  /\ LET m1 == [Mem EXCEPT !.tokens = Null]
         m2 == setRefreshToken(m1, NullTok)
         m3 == clearAuthStateCookie(m2)
         m4 == [m3 EXCEPT !.sessionStorage = removeItem(@, AUTH_STORAGE_KEY)]
     IN Commit([m4 EXCEPT !.isLoggingOut = FALSE])
  /\ reqs' = Released(reqs)
  /\ UNCHANGED <<mounted, refreshInFlight>>

\* the page is reloaded: module and component state is lost, pending calls
\* are abandoned, sessionStorage and the cookie survive
Reload ==
  /\ UNCHANGED <<cacheVars, hookVars, fnVars, uiVars>>
  /\ mounted
  /\ mounted' = FALSE
  /\ tokens' = Null
  /\ isLoggingOut' = FALSE
  /\ logoutTimer' = FALSE
  /\ volatileRefreshToken' = NullTok
  /\ refreshInFlight' = NoPromise
  /\ reqs' = [i \in Slots |-> IdleReq]
  /\ dispatched' = <<>>
  /\ delivered' = <<>>
  /\ refreshAnswer' = 0
  /\ UNCHANGED <<cookie, sessionStorage>>

(***************************************************************************)
(* Properties of the session pipeline.                                     *)
(***************************************************************************)
HasSession == AUTH_STORAGE_KEY \in DOMAIN sessionStorage
isAuthenticated == tokens # Null /\ ~Falsy(tokens.accessToken)
RefreshTokenValues == {b.refreshToken : b \in Bundles}

\* HTTP calls to the refresh endpoint that are pending: the single-flight
\* one and those refreshAuthToken issues through request()
RefreshCallsInFlight ==
  (IF refreshInFlight = Pending THEN 1 ELSE 0)
  + Cardinality({i \in Slots : reqs[i].kind = "refresh" /\ reqs[i].st = "fetching"})

\* C1: at every instant at most one HTTP call to the refresh endpoint is in
\* flight, counting the calls of refreshTokensWithLock and of refreshAuthToken.
C1_AtMostOneRefreshCall == RefreshCallsInFlight <= 1

\* C2 (as stated): a call that was pending on its first attempt when the 419
\* of a concurrent call issued the refresh HTTP call, and that then receives
\* 419 itself, awaits that refresh and issues no second refresh HTTP call,
\* whenever its response arrives.
C2_OneRefreshWhateverOrder ==
  [][\A j \in Slots :
       (reqs[j].peerRefreshed /\ FirstAttempt(reqs[j])
          /\ reqs'[j].code = RecoverableCode)
       => (reqs'[j].st = "refreshing" /\ ~reqs'[j].startedRefresh)]_vars

\* C2 (amended): a first-attempt 419 that arrives while a refresh token is
\* held and the refresh call is still in flight joins it without issuing
\* another refresh HTTP call; of the calls awaiting a refresh exactly one
\* issued it; and when it settles they all continue together, retried with
\* the access token that refresh returned or all rejected.
C2_SingleFlightWhileInFlight ==
  [][(\A k \in Slots :
        (FirstAttempt(reqs[k]) /\ reqs'[k].code = RecoverableCode
           /\ refreshInFlight = Pending /\ volatileRefreshToken # NullTok)
        => (reqs'[k].st = "refreshing" /\ ~reqs'[k].startedRefresh
              /\ refreshInFlight' = Pending))
     /\ (({i \in Slots : reqs'[i].st = "refreshing"} # {})
          => (refreshInFlight' = Pending
              /\ Cardinality({i \in Slots : reqs'[i].st = "refreshing"
                                            /\ reqs'[i].startedRefresh}) = 1))
     /\ (\A i, j \in Slots :
          (reqs[i].st = "refreshing" /\ reqs[j].st = "refreshing" /\ mounted')
          => ((reqs'[i].st = "refreshing" /\ reqs'[j].st = "refreshing")
              \/ (reqs'[i].st = "fetching" /\ reqs'[j].st = "fetching"
                  /\ ~reqs'[i].retryOn419 /\ ~reqs'[j].retryOn419
                  /\ reqs'[i].token = reqs'[j].token
                  /\ tokens' # Null /\ reqs'[i].token = tokens'.accessToken)
              \/ (reqs'[i].st = "rejected" /\ reqs'[j].st = "rejected")))
    ]_vars

\* two calls await the same refresh
C2_Witness ==
  \E i, j \in Slots :
    /\ i # j
    /\ reqs[i].st = "refreshing" /\ reqs[j].st = "refreshing"
    /\ reqs[i].startedRefresh /\ ~reqs[j].startedRefresh

\* C3: a call that received 419 on its original attempt and again on its
\* retried attempt has rejected, after exactly two network calls.
C3_SecondRecoverableRejects ==
  \A i \in Slots :
    (reqs[i].st \in {"resolved", "rejected"} /\ ~reqs[i].retryOn419
       /\ reqs[i].code = RecoverableCode)
    => (reqs[i].st = "rejected" /\ reqs[i].calls = 2)

\* C4: the step that handles a response carrying code 498 rejects the call
\* without a retry and without a refresh call, dispatches exactly one
\* force-logout event, removes the persisted session record and clears the
\* in-memory refresh token.
C4_FatalCodeForcesLogout ==
  [][\A i \in Slots :
       (reqs[i].st = "fetching" /\ reqs'[i].code = FatalCode)
       => /\ reqs'[i].st = "rejected"
          /\ reqs'[i].calls = reqs[i].calls
          /\ refreshInFlight' = refreshInFlight
          /\ RefreshCallsInFlight' <= RefreshCallsInFlight
          /\ dispatched' = <<FORCE_LOGOUT>>
          /\ AUTH_STORAGE_KEY \notin DOMAIN sessionStorage'
          /\ volatileRefreshToken' = NullTok]_vars

\* a retried call was answered with 498 and the session is gone
C4_Witness ==
  \E i \in Slots :
    /\ reqs[i].st = "rejected" /\ reqs[i].code = FatalCode /\ reqs[i].calls = 2
    /\ dispatched = <<FORCE_LOGOUT>>
    /\ ~HasSession

\* C5: the persisted session record has exactly the fields accessToken,
\* accessTokenExpiresAt and refreshTokenExpiresAt, and none of them holds a
\* refresh token.
C5_SessionOmitsRefreshToken ==
  HasSession =>
    LET session == sessionStorage[AUTH_STORAGE_KEY]
    IN /\ DOMAIN session = {"accessToken", "accessTokenExpiresAt", "refreshTokenExpiresAt"}
       /\ \A f \in DOMAIN session : session[f] \notin RefreshTokenValues

\* a refreshed session is persisted while the refresh token is held in memory
C5_Witness ==
  /\ HasSession
  /\ volatileRefreshToken \in RefreshTokenValues
  /\ dispatched = <<AUTH_UPDATED>>

\* C6: once AuthProvider has mounted, a session record exists in
\* sessionStorage if and only if the provider reports isAuthenticated.
C6_SessionIffAuthenticated ==
  mounted => (HasSession <=> isAuthenticated)

\* C14: in the step in which the single-flight refresh resolves and the
\* calls awaiting it are retried, one auth-updated event was dispatched, at
\* a moment when the new session record (access token and both expiries)
\* was already persisted and the in-memory refresh token already replaced;
\* the provider's listener ran within that step, so its tokens are the
\* event's detail; and every retry issued carries the refreshed access token
\* with the session and the refresh token still as the event saw them.
C14_StoredThenBroadcastThenRetry ==
  [][(refreshInFlight = Pending /\ refreshInFlight' = NoPromise
        /\ \E i \in Slots : reqs[i].st = "refreshing" /\ reqs'[i].st = "fetching")
     => /\ dispatched' = <<AUTH_UPDATED>>
        /\ Len(delivered') = 1
        /\ LET d == delivered'[1]
           IN /\ d.name = AUTH_UPDATED
              /\ AUTH_STORAGE_KEY \in DOMAIN d.storage
              /\ d.storage[AUTH_STORAGE_KEY] =
                   [accessToken |-> d.detail.accessToken,
                    accessTokenExpiresAt |-> d.detail.accessTokenExpiresAt,
                    refreshTokenExpiresAt |-> d.detail.refreshTokenExpiresAt]
              /\ d.refreshToken = d.detail.refreshToken
              /\ d.handled
              /\ tokens' = d.detail
              /\ sessionStorage' = d.storage
              /\ volatileRefreshToken' = d.refreshToken
              /\ \A i \in Slots :
                   reqs[i].st = "refreshing"
                   => /\ reqs'[i].st = "fetching"
                      /\ reqs'[i].calls = reqs[i].calls + 1
                      /\ reqs'[i].token = d.detail.accessToken]_vars

\* two calls awaiting one refresh were retried with the token of the
\* session the event announced, which differs from the one they were sent
\* with
C14_Witness ==
  /\ dispatched = <<AUTH_UPDATED>>
  /\ Len(delivered) = 1
  /\ delivered[1].handled
  /\ \A i \in Slots :
       /\ reqs[i].st = "fetching" /\ ~reqs[i].retryOn419 /\ reqs[i].calls = 2
       /\ reqs[i].token = delivered[1].detail.accessToken
  /\ HasSession
  /\ sessionStorage[AUTH_STORAGE_KEY].accessToken = "A2"

\* C15: the step in which the refresh endpoint answers the single-flight
\* call with code 498 removes the session record, clears the in-memory
\* refresh token and dispatches exactly one force-logout event, however many
\* calls await the refresh; each of them rejects and none is sent again.
C15_FatalRefreshForcesLogout ==
  [][(refreshInFlight = Pending /\ refreshAnswer' = FatalCode)
     => /\ dispatched' = <<FORCE_LOGOUT>>
        /\ AUTH_STORAGE_KEY \notin DOMAIN sessionStorage'
        /\ volatileRefreshToken' = NullTok
        /\ \A i \in Slots :
             /\ reqs[i].st = "refreshing"
                => (reqs'[i].st = "rejected" /\ reqs'[i].calls = reqs[i].calls)
             /\ reqs[i].st # "refreshing"
                => IF Settled(reqs[i]) THEN Settled(reqs'[i])
                                       ELSE reqs'[i] = reqs[i]]_vars

\* the refresh awaited by two calls was answered 498
C15_Witness ==
  /\ refreshAnswer = FatalCode
  /\ dispatched = <<FORCE_LOGOUT>>
  /\ ~HasSession
  /\ volatileRefreshToken = NullTok
  /\ \E i, j \in Slots :
       /\ i # j
       /\ reqs[i].st = "rejected" /\ reqs[i].code = RecoverableCode /\ reqs[i].calls = 1
       /\ reqs[j].st = "rejected" /\ reqs[j].code = RecoverableCode /\ reqs[j].calls = 1

\* C16: the step that handles the answer of the single-flight refresh call
\* empties refreshInFlight, on success and on failure, and the calls that
\* awaited it continue together: all retried, or, when it failed, all
\* rejected; the slot is occupied only while a call awaits a pending
\* refresh; and a first-attempt 419 that finds the slot empty while a
\* refresh token is held starts a new refresh call.
C16_SlotReleasedOnSettle ==
  [][ /\ (refreshInFlight = Pending /\ refreshAnswer' # 0)
           => /\ refreshInFlight' = NoPromise
              /\ \/ \A i \in Slots : reqs[i].st = "refreshing" => reqs'[i].st = "rejected"
                 \/ /\ dispatched' = <<AUTH_UPDATED>>
                    /\ \A i \in Slots : reqs[i].st = "refreshing" => reqs'[i].st = "fetching"
      /\ (refreshInFlight' = Pending)
           => \E i \in Slots : reqs'[i].st = "refreshing" /\ reqs'[i].startedRefresh
      /\ \A i \in Slots :
           (FirstAttempt(reqs[i]) /\ reqs'[i].code = RecoverableCode
              /\ volatileRefreshToken # NullTok /\ refreshInFlight = NoPromise)
           => (refreshInFlight' = Pending /\ reqs'[i].st = "refreshing"
                 /\ reqs'[i].startedRefresh)
    ]_vars

\* two calls joined a refresh that failed without a forced logout, and the
\* slot is empty again
C16_Witness ==
  /\ refreshAnswer \notin {0, FatalCode}
  /\ refreshInFlight = NoPromise
  /\ dispatched = <<>>
  /\ \E i, j \in Slots :
       /\ i # j
       /\ reqs[i].st = "rejected" /\ reqs[i].code = RecoverableCode /\ reqs[i].calls = 1
       /\ reqs[j].st = "rejected" /\ reqs[j].code = RecoverableCode /\ reqs[j].calls = 1

\* C17: a call starts awaiting a refresh only in the step that handles the
\* 419 answer to its first attempt; it is sent again only from that wait, in
\* the step in which the refresh call is answered successfully, with the
\* access token that refresh returned and with the retry disabled; and a
\* call is sent at most twice.
C17_RequestRefreshRetryInOrder ==
  [][\A i \in Slots :
       /\ (reqs'[i].st = "refreshing" /\ reqs[i].st # "refreshing")
            => (FirstAttempt(reqs[i]) /\ reqs[i].calls = 1
                  /\ reqs'[i].code = RecoverableCode /\ refreshInFlight' = Pending)
       /\ (reqs'[i].st = "fetching" /\ reqs[i].st # "fetching")
            => \/ (Settled(reqs[i]) /\ reqs'[i].calls = 1 /\ reqs'[i].retryOn419)
               \/ /\ reqs[i].st = "refreshing"
                  /\ refreshInFlight = Pending
                  /\ refreshAnswer' \notin {0, FatalCode}
                  /\ Len(delivered') = 1
                  /\ delivered'[1].name = AUTH_UPDATED
                  /\ reqs'[i].token = delivered'[1].detail.accessToken
                  /\ ~reqs'[i].retryOn419
                  /\ reqs'[i].calls = 2
       /\ reqs'[i].calls <= 2]_vars

\* one call is on its retry, sent with the refreshed access token, while
\* another has not been answered yet
C17_Witness ==
  \E i, j \in Slots :
    /\ reqs[i].st = "fetching" /\ ~reqs[i].retryOn419 /\ reqs[i].calls = 2
    /\ reqs[i].code = RecoverableCode
    /\ tokens # Null /\ reqs[i].token = tokens.accessToken
    /\ FirstAttempt(reqs[j]) /\ reqs[j].token # reqs[i].token
    /\ refreshInFlight = NoPromise

\* C18: the step in which a login completes leaves the in-memory refresh
\* token equal to the refresh token of the login response; a successful
\* refresh, single-flight or by refreshAuthToken, replaces it with the one
\* that refresh returned; a forced logout and the completion of an explicit
\* logout leave it null.
C18_RefreshTokenLifecycle ==
  [][ /\ \A i \in Slots :
           (reqs[i].st = "fetching" /\ reqs[i].kind = "login" /\ reqs'[i].st = "resolved")
           => (tokens' # Null /\ volatileRefreshToken' = tokens'.refreshToken
                 /\ volatileRefreshToken' \in RefreshTokenValues)
      /\ \A i \in Slots :
           (reqs[i].st = "fetching" /\ reqs[i].kind = "refresh" /\ reqs'[i].st = "resolved")
           => \E b \in Bundles :
                /\ volatileRefreshToken' = b.refreshToken
                /\ AUTH_STORAGE_KEY \in DOMAIN sessionStorage'
                /\ sessionStorage'[AUTH_STORAGE_KEY].accessToken = b.accessToken
      /\ (dispatched' = <<AUTH_UPDATED>>)
           => (volatileRefreshToken' = delivered'[1].detail.refreshToken
                 /\ volatileRefreshToken' \in RefreshTokenValues)
      /\ (dispatched' = <<FORCE_LOGOUT>>) => volatileRefreshToken' = NullTok
      /\ (logoutTimer /\ ~logoutTimer') => volatileRefreshToken' = NullTok
    ]_vars

\* after a login, a refresh has replaced the refresh token by another one
C18_Witness ==
  /\ dispatched = <<AUTH_UPDATED>>
  /\ delivered[1].refreshToken = "R2"
  /\ volatileRefreshToken = "R2"
  /\ \E i \in Slots : reqs[i].st = "fetching" /\ reqs[i].calls = 2 /\ reqs[i].token = "A2"
  /\ \E j \in Slots : FirstAttempt(reqs[j]) /\ reqs[j].token = "A1"

\* C19: the step in which a login completes leaves the auth-state cookie
\* set to 1; the completion of an explicit logout and every forced logout,
\* whether the 498 answered a request or the refresh call, leave it cleared.
C19_CookieFollowsSession ==
  [][ /\ \A i \in Slots :
           (reqs[i].st = "fetching" /\ reqs[i].kind = "login" /\ reqs'[i].st = "resolved")
           => cookie'
      /\ (logoutTimer /\ ~logoutTimer' /\ mounted') => ~cookie'
      /\ (dispatched' = <<FORCE_LOGOUT>>) => ~cookie'
      /\ \A i \in Slots :
           (reqs[i].st = "fetching" /\ reqs'[i].code = FatalCode) => ~cookie'
      /\ (refreshInFlight = Pending /\ refreshAnswer' = FatalCode) => ~cookie'
    ]_vars

\* a forced logout raised by a 498 answer to a request cleared a cookie
\* that was set
C19_Witness ==
  /\ dispatched = <<FORCE_LOGOUT>>
  /\ delivered[1].cookie
  /\ ~cookie
  /\ refreshAnswer = 0
  /\ \E i \in Slots : reqs[i].st = "rejected" /\ reqs[i].code = FatalCode

\* C13: the step that handles a first-attempt response with code 419 while
\* no refresh token is held rejects the call at once: no call to the refresh
\* endpoint is started and the request is not sent again.
C13_NoRefreshTokenFailsAtOnce ==
  [][\A i \in Slots :
       (FirstAttempt(reqs[i]) /\ reqs'[i].code = RecoverableCode
          /\ volatileRefreshToken = NullTok)
       => /\ reqs'[i].st = "rejected"
          /\ reqs'[i].calls = 1
          /\ refreshInFlight' = refreshInFlight
          /\ RefreshCallsInFlight' <= RefreshCallsInFlight
          /\ \A j \in Slots :
               j # i => IF Settled(reqs[j]) THEN Settled(reqs'[j])
                                            ELSE reqs'[j] = reqs[j]]_vars

\* a call made with a session restored after a reload, when the refresh
\* token is gone, was answered 419 and rejected
C13_Witness ==
  \E i \in Slots :
    /\ tokens # Null
    /\ volatileRefreshToken = NullTok
    /\ refreshInFlight = NoPromise
    /\ reqs[i].st = "rejected" /\ reqs[i].code = RecoverableCode /\ reqs[i].calls = 1

(***************************************************************************)
(* hooks/use-communities.ts: the TTL cache and the in-flight map.          *)
(* Parameters are records; an omitted string is Undefined and an omitted   *)
(* limit is 0 (both are falsy where the code tests them).                  *)
(***************************************************************************)
Params(search, limit, cursor, token) ==
  [search |-> search, limit |-> limit, cursor |-> cursor, token |-> token]

\* x || d for a string parameter
OrElse(x, d) == IF Falsy(x) THEN d ELSE x

\* variant: the token is left out of the key
getCacheKey_noToken(params) ==
  [search |-> OrElse(params.search, ""),
   limit |-> IF params.limit = 0 THEN DefaultLimit ELSE params.limit,
   cursor |-> OrElse(params.cursor, ""),
   token |-> ""]

\* JSON.stringify of an object with these four properties, in this order, is
\* one-to-one on their values, so the key is modelled by the object
getCacheKey(params) ==
  [search |-> OrElse(params.search, ""),
   limit |-> IF params.limit = 0 THEN DefaultLimit ELSE params.limit,
   cursor |-> OrElse(params.cursor, ""),
   token |-> OrElse(params.token, "")]

\* fetchCommunities: the query string and bearer token that reach the network
NetworkQuery(params) ==
  [search |-> OrElse(params.search, Undefined),
   limit |-> params.limit,
   cursor |-> OrElse(params.cursor, Undefined),
   token |-> OrElse(params.token, Undefined)]

\* the parameter sets useCommunities passes to fetchWithCache: search is
\* `search || undefined`, limit a page size, cursor a held nextCursor or
\* omitted, token the provider's access token or undefined
HookParams ==
  { Params(s, l, c, t) : s \in {Undefined, "a"}, l \in {DefaultLimit, 24},
                         c \in {Undefined, "c1"}, t \in {Undefined, "A1", "A2"} }

Versions == {1, 2}
Rejected == [ok |-> FALSE]
Fulfilled(payload) == [ok |-> TRUE, payload |-> payload]
\* what the backend can answer to a query
Outcomes(query) ==
  {Rejected} \cup {Fulfilled([query |-> query, version |-> v]) : v \in Versions}

Unsettled == [pending |-> TRUE]
NoCall == [none |-> TRUE]
NoMap == [k \in {} |-> Null]
IdleCaller == [st |-> "idle"]

InitCacheWith(sets) ==
  /\ now = 0
  /\ communitiesCache = NoMap
  /\ communitiesInFlight = NoMap
  /\ callers = [c \in Callers |-> IdleCaller]
  /\ fetches = NoMap
  /\ paramSets \in sets
  /\ invoked = NoCall
  /\ returned = NoMap
  /\ issuedAt = NoMap

\* variant: an entry exactly CACHE_TTL_MS old is already stale
IsFresh_strict(cache, cacheKey, t) ==
  cacheKey \in DOMAIN cache /\ t - cache[cacheKey].ts < CACHE_TTL_MS

\* the cache lookup of fetchWithCache
IsFresh(cache, cacheKey, t) ==
  cacheKey \in DOMAIN cache /\ t - cache[cacheKey].ts <= CACHE_TTL_MS

\* variant: the in-flight entry is deleted on success only
AfterAwait_noFinally(cache, inFlight, cacheKey, outcome, t) ==
  [cache |-> IF outcome.ok
               THEN setItem(cache, cacheKey, [ts |-> t, payload |-> outcome.payload])
               ELSE cache,
   inFlight |-> IF outcome.ok THEN removeItem(inFlight, cacheKey) ELSE inFlight]

\* fetchWithCache after `await request`: the write on success and the
\* finally clause
AfterAwait(cache, inFlight, cacheKey, outcome, t) ==
  [cache |-> IF outcome.ok
               THEN setItem(cache, cacheKey, [ts |-> t, payload |-> outcome.payload])
               ELSE cache,
   inFlight |-> removeItem(inFlight, cacheKey)]

\* promises that are still pending or still held by the in-flight map
Live(fs, inFlight) ==
  [id \in {i \in DOMAIN fs : fs[i].status = Unsettled
                             \/ \E k \in DOMAIN inFlight : inFlight[k] = i}
     |-> fs[id]]

\* a caller invokes fetchWithCache(params)
FetchCall(c, params) ==
  LET cacheKey == getCacheKey(params)
      joined == cacheKey \in DOMAIN communitiesInFlight
      id == IF joined THEN communitiesInFlight[cacheKey] ELSE c
      request == IF joined THEN fetches[id]
                 ELSE [key |-> cacheKey, query |-> NetworkQuery(params),
                       status |-> Unsettled]
      inFlight1 == setItem(communitiesInFlight, cacheKey, id)
      fetches1 == setItem(fetches, id, request)
  IN
  /\ callers[c].st = "idle"
  /\ params \in paramSets
  /\ UNCHANGED <<authVars, hookVars, fnVars, uiVars>>
  /\ IF IsFresh(communitiesCache, cacheKey, now) THEN
       /\ returned' = setItem(NoMap, c,
                              [params |-> params,
                               outcome |-> Fulfilled(communitiesCache[cacheKey].payload)])
       /\ invoked' = [caller |-> c, key |-> cacheKey, fetched |-> FALSE]
       /\ UNCHANGED <<communitiesCache, communitiesInFlight, callers, fetches, issuedAt>>
     ELSE
       /\ invoked' = [caller |-> c, key |-> cacheKey, fetched |-> ~joined]
       /\ issuedAt' = IF joined THEN issuedAt ELSE setItem(issuedAt, cacheKey, now)
       /\ IF request.status = Unsettled THEN
            /\ callers' = [callers EXCEPT ![c] =
                             [st |-> "awaiting", params |-> params, request |-> id]]
            /\ communitiesInFlight' = inFlight1
            /\ fetches' = fetches1
            /\ returned' = NoMap
            /\ UNCHANGED communitiesCache
          ELSE
            \* the promise found in the map has already settled
            LET after == AfterAwait(communitiesCache, inFlight1, cacheKey,
                                    request.status, now)
            IN /\ communitiesCache' = after.cache
               /\ communitiesInFlight' = after.inFlight
               /\ fetches' = Live(fetches1, after.inFlight)
               /\ returned' = setItem(NoMap, c,
                                      [params |-> params, outcome |-> request.status])
               /\ UNCHANGED callers
  /\ UNCHANGED <<now, paramSets>>

\* the continuations of the callers awaiting promise id, run one after the
\* other in the microtasks that follow its settlement
RECURSIVE Continue(_, _, _, _, _)
Continue(waiting, cache, inFlight, outcome, t) ==
  IF waiting = {} THEN [cache |-> cache, inFlight |-> inFlight]
  ELSE LET c == CHOOSE x \in waiting : \A y \in waiting : x <= y
           after == AfterAwait(cache, inFlight, getCacheKey(callers[c].params),
                               outcome, t)
       IN Continue(waiting \ {c}, after.cache, after.inFlight, outcome, t)

\* the network call behind promise id settles
FetchSettles(id, outcome) ==
  LET waiting == {c \in Callers : callers[c].st = "awaiting" /\ callers[c].request = id}
      after == Continue(waiting, communitiesCache, communitiesInFlight, outcome, now)
  IN
  /\ id \in DOMAIN fetches
  /\ fetches[id].status = Unsettled
  /\ UNCHANGED <<authVars, hookVars, fnVars, uiVars>>
  /\ outcome \in Outcomes(fetches[id].query)
  /\ communitiesCache' = after.cache
  /\ communitiesInFlight' = after.inFlight
  /\ fetches' = Live([fetches EXCEPT ![id].status = outcome], after.inFlight)
  /\ callers' = [c \in Callers |-> IF c \in waiting THEN IdleCaller ELSE callers[c]]
  /\ returned' = [c \in waiting |-> [params |-> callers[c].params, outcome |-> outcome]]
  /\ invoked' = NoCall
  /\ UNCHANGED <<now, paramSets, issuedAt>>

\* time passes
Tick(d) ==
  /\ now + d <= MaxNow
  /\ now' = now + d
  /\ UNCHANGED <<authVars, hookVars, fnVars, uiVars>>
  /\ invoked' = NoCall
  /\ returned' = NoMap
  /\ UNCHANGED <<communitiesCache, communitiesInFlight, callers, fetches,
                 paramSets, issuedAt>>

(***************************************************************************)
(* useCommunities.  A page is what fetchWithCache resolves with: the items *)
(* and pagination.nextCursor.  An item is a Community: its id, and rev for *)
(* the rest of its fields.                                                 *)
(***************************************************************************)
RECURSIVE SeqsUpTo(_, _)
SeqsUpTo(S, n) ==
  IF n = 0 THEN {<<>>}
  ELSE LET shorter == SeqsUpTo(S, n - 1)
       IN shorter \cup {Append(q, x) : q \in shorter, x \in S}

Community(id, rev) == [id |-> id, rev |-> rev]

Pages ==
  [data : SeqsUpTo({Community(i, 1) : i \in Ids}, MaxPageLen),
   nextCursor : {NullTok, "c1"}]

\* the ids of a list, as a set
IdSet(q) == {q[i].id : i \in 1..Len(q)}
HasDuplicate(q) == \E i, j \in 1..Len(q) : i # j /\ q[i].id = q[j].id

\* variant: the page is appended as received
dedupeById_concat(previous, incoming) == previous \o incoming

dedupeById(previous, incoming) ==
  LET existing == IdSet(previous)
      fresh(item) == item.id \notin existing
  IN previous \o SelectSeq(incoming, fresh)

NoLoad == [st |-> "idle"]

InitHook ==
  /\ communities = <<>>
  /\ nextCursor = NullTok
  /\ isLoading = TRUE
  /\ isLoadingMore = FALSE
  /\ loadSeq = 0
  /\ loads = {}
  /\ mores = [m \in 1..MaxMore |-> NoLoad]
  /\ dupPage = FALSE
  /\ overlapMerged = FALSE
  /\ staleMores = {}
  /\ staleDropped = FALSE

\* the initial-load effect runs (first render, or search / token / limit
\* changed): the previous run is cleaned up and a new load is issued
LoadEffect ==
  /\ loadSeq < MaxLoads
  /\ loadSeq' = loadSeq + 1
  /\ isLoading' = TRUE
  /\ loads' = {[l EXCEPT !.cancelled = TRUE] : l \in loads}
              \cup {[seq |-> loadSeq + 1, cancelled |-> FALSE]}
  /\ overlapMerged' = FALSE
  /\ UNCHANGED <<communities, nextCursor, isLoadingMore, mores, dupPage>>
  /\ UNCHANGED <<authVars, cacheVars, fnVars, uiVars>>

\* variant: the response is applied whatever run of the effect issued it
LoadResolves_unguarded(l, page) ==
  /\ l \in loads
  /\ loads' = loads \ {l}
  /\ communities' = page.data
  /\ nextCursor' = page.nextCursor
  /\ isLoading' = FALSE
  /\ dupPage' = HasDuplicate(page.data)
  /\ overlapMerged' = FALSE
  /\ UNCHANGED <<isLoadingMore, loadSeq, mores>>
  /\ UNCHANGED <<authVars, cacheVars, fnVars, uiVars>>

\* the promise of an initial load resolves: then / finally
LoadResolves(l, page) ==
  /\ l \in loads
  /\ loads' = loads \ {l}
  /\ IF l.cancelled \/ l.seq # loadSeq
       THEN UNCHANGED <<communities, nextCursor, isLoading, dupPage>>
       ELSE /\ communities' = page.data
            /\ nextCursor' = page.nextCursor
            /\ isLoading' = FALSE
            /\ dupPage' = HasDuplicate(page.data)
  /\ overlapMerged' = FALSE
  /\ UNCHANGED <<isLoadingMore, loadSeq, mores>>
  /\ UNCHANGED <<authVars, cacheVars, fnVars, uiVars>>

\* the promise of an initial load rejects: catch / finally
LoadRejects(l) ==
  /\ l \in loads
  /\ loads' = loads \ {l}
  /\ isLoading' = IF ~l.cancelled /\ l.seq = loadSeq THEN FALSE ELSE isLoading
  /\ overlapMerged' = FALSE
  /\ UNCHANGED <<communities, nextCursor, isLoadingMore, loadSeq, mores, dupPage>>
  /\ UNCHANGED <<authVars, cacheVars, fnVars, uiVars>>

\* loadMore is called
LoadMore(m) ==
  /\ mores[m].st = "idle"
  /\ nextCursor # NullTok
  /\ isLoadingMore' = TRUE
  /\ mores' = [mores EXCEPT ![m] = [st |-> "awaiting"]]
  /\ overlapMerged' = FALSE
  /\ UNCHANGED <<communities, nextCursor, isLoading, loadSeq, loads, dupPage>>
  /\ UNCHANGED <<authVars, cacheVars, fnVars, uiVars>>

\* the page awaited by loadMore arrives
MoreResolves(m, page) ==
  /\ mores[m].st = "awaiting"
  /\ mores' = [mores EXCEPT ![m] = NoLoad]
  /\ communities' = dedupeById(communities, page.data)
  /\ nextCursor' = page.nextCursor
  /\ isLoadingMore' = FALSE
  /\ dupPage' = (dupPage \/ HasDuplicate(page.data))
  /\ overlapMerged' = (IdSet(page.data) \cap IdSet(communities) # {})
  /\ UNCHANGED <<isLoading, loadSeq, loads>>
  /\ UNCHANGED <<authVars, cacheVars, fnVars, uiVars>>

\* the fetch awaited by loadMore fails
MoreRejects(m) ==
  /\ mores[m].st = "awaiting"
  /\ mores' = [mores EXCEPT ![m] = NoLoad]
  /\ isLoadingMore' = FALSE
  /\ overlapMerged' = FALSE
  /\ UNCHANGED <<communities, nextCursor, isLoading, loadSeq, loads, dupPage>>
  /\ UNCHANGED <<authVars, cacheVars, fnVars, uiVars>>

\* the step A of the hook, with the history it leaves
Tracked(A, stale, dropped) ==
  /\ A
  /\ staleMores' = stale
  /\ staleDropped' = dropped

AwaitingMores == {m \in 1..MaxMore : mores[m].st = "awaiting"}

(***************************************************************************)
(* Pure functions, applied to arguments drawn from bounded sets.           *)
(***************************************************************************)
InitFn ==
  /\ fnCall = NoCall
  /\ fnResult = Null

\* a value returned by the function called
Returned(value) == [returned |-> value]

MergeLists == SeqsUpTo({Community(i, r) : i \in 1..MaxMergeId, r \in {1, 2}}, MaxMergeLen)

dedupeByIdCalls ==
  [fn : {"dedupeById"}, previous : MergeLists, incoming : MergeLists]

Thrown == [thrown |-> TRUE]

\* the values a login or refresh response can carry for the four fields:
\* absent, null, empty, or a value
LoginValues ==
  [accessToken : {Undefined, NullTok, "", "A1"},
   refreshToken : {Undefined, NullTok, "", "R1"},
   accessTokenExpiresAt : {Undefined, NullTok, "E1", "number:17"},
   refreshTokenExpiresAt : {Undefined, "F1"}]

normalizeLoginDataCalls ==
  [fn : {"normalizeLoginData"}, shape : {"camelRoot", "snakeNested"}, values : LoginValues]

\* normalizeLoginData(payload) runs on a payload of the given shape
CallNormalizeLoginData ==
  /\ fnCall # NoCall
  /\ fnCall.fn = "normalizeLoginData"
  /\ fnResult = Null
  /\ LET payload == IF fnCall.shape = "camelRoot" THEN CamelRoot(fnCall.values)
                                                  ELSE SnakeNested(fnCall.values)
         data == normalizeLoginData(payload)
     IN fnResult' = IF data = Null THEN Thrown ELSE Returned(data)
  /\ UNCHANGED <<fnCall, authVars, cacheVars, hookVars, uiVars>>

\* A pathname is the sequence of its characters.
LoginPath == <<"/", "l", "o", "g", "i", "n">>
CommunitiesPath == <<"/", "c", "o", "m", "m", "u", "n", "i", "t", "i", "e", "s">>

\* pathname.startsWith(prefix)
StartsWith(pathname, prefix) ==
  Len(pathname) >= Len(prefix) /\ SubSeq(pathname, 1, Len(prefix)) = prefix

\* config.matcher: "/login" and "/communities/:path*"
Matches(pathname) ==
  \/ pathname = LoginPath
  \/ pathname = CommunitiesPath
  \/ StartsWith(pathname, CommunitiesPath \o <<"/">>)

RequestPaths ==
  { LoginPath, CommunitiesPath,
    CommunitiesPath \o <<"/", "7">>,
    CommunitiesPath \o <<"/", "7", "/", "e">>,
    CommunitiesPath \o <<"/">>,
    CommunitiesPath \o <<"/", "c", "r", "e", "a", "t", "e">>,
    CommunitiesPath \o <<"/", "7", "/", "m", "e", "m", "b", "e", "r", "s">>,
    CommunitiesPath \o <<"-", "x">>,
    LoginPath \o <<"/", "x">>,
    <<"/">> }

\* request.cookies.get(AUTH_STATE_COOKIE)?.value: absent, or a value
CookieValues == {Undefined, "1", "0", "", "true"}

Redirect(pathname) == [redirect |-> pathname]
PassThrough == [next |-> TRUE]

\* variant: any cookie value counts as signed in
middleware_anyCookie(pathname, cookieValue) ==
  LET hasAuthState == cookieValue # Undefined
  IN IF StartsWith(pathname, CommunitiesPath) /\ ~hasAuthState THEN Redirect(LoginPath)
     ELSE IF pathname = LoginPath /\ hasAuthState THEN Redirect(CommunitiesPath)
     ELSE PassThrough

middleware(pathname, cookieValue) ==
  LET hasAuthState == cookieValue = "1"
  IN IF StartsWith(pathname, CommunitiesPath) /\ ~hasAuthState THEN Redirect(LoginPath)
     ELSE IF pathname = LoginPath /\ hasAuthState THEN Redirect(CommunitiesPath)
     ELSE PassThrough

\* the requests the matcher hands to the middleware
middlewareCalls ==
  [fn : {"middleware"}, pathname : {q \in RequestPaths : Matches(q)},
   cookieValue : CookieValues]

\* middleware(request) runs
CallMiddleware ==
  /\ fnCall # NoCall
  /\ fnCall.fn = "middleware"
  /\ fnResult = Null
  /\ fnResult' = Returned(middleware(fnCall.pathname, fnCall.cookieValue))
  /\ UNCHANGED <<fnCall, authVars, cacheVars, hookVars, uiVars>>

\* dedupeById(previous, incoming) runs
CallDedupeById ==
  /\ fnCall # NoCall
  /\ fnCall.fn = "dedupeById"
  /\ fnResult = Null
  /\ fnResult' = Returned(dedupeById(fnCall.previous, fnCall.incoming))
  /\ UNCHANGED <<fnCall, authVars, cacheVars, hookVars, uiVars>>

(***************************************************************************)
(* CommunityList: the community counts and the status switch.  One         *)
(* community is listed.  A run of the count effect is its closure:         *)
(* cancelled, inFlight, the fetchCommunityCount calls it awaits (each with *)
(* its showError argument, oldest first), and late: it has handled an      *)
(* answer after its cleanup.  fetchCommunityCount and                      *)
(* updateCommunityStatus are taken by their outcome.                       *)
(***************************************************************************)
COMMUNITY_COUNT_CACHE_KEY == "padosi_community_count"

ListedCommunity == [id |-> 1, status |-> "ACTIVE"]

CommunityCountData(total, active, inactive) ==
  [totalCommunities |-> total, activeCommunities |-> active,
   inactiveCommunities |-> inactive]

\* Number(x) of a value that is not numeric
NaN == -999

\* response.data of the count endpoint: counts, a payload with a value that
\* is not numeric, or no object
CountPayloads ==
  {CommunityCountData(3, a, 3 - a) : a \in 1..2}
    \cup {CommunityCountData(3, NaN, 1), Null}

\* Null stands for the thrown error
normalizeCommunityCountData(input) ==
  IF input = Null THEN Null
  ELSE IF NaN \in {input.totalCommunities, input.activeCommunities,
                   input.inactiveCommunities} THEN Null
  ELSE CommunityCountData(input.totalCommunities, input.activeCommunities,
                          input.inactiveCommunities)

isSameCommunityCount(a, b) ==
  /\ a.totalCommunities = b.totalCommunities
  /\ a.activeCommunities = b.activeCommunities
  /\ a.inactiveCommunities = b.inactiveCommunities

\* the value read, and the storage it leaves
readCommunityCountCache(storage) ==
  IF COMMUNITY_COUNT_CACHE_KEY \notin DOMAIN storage
    THEN [value |-> Null, storage |-> storage]
  ELSE IF storage[COMMUNITY_COUNT_CACHE_KEY] = Malformed
    THEN [value |-> Null, storage |-> removeItem(storage, COMMUNITY_COUNT_CACHE_KEY)]
  ELSE [value |-> storage[COMMUNITY_COUNT_CACHE_KEY], storage |-> storage]

writeCommunityCountCache(storage, value) ==
  setItem(storage, COMMUNITY_COUNT_CACHE_KEY, value)

resolveAccessToken(preferredToken, storage) ==
  IF ~Falsy(preferredToken) THEN preferredToken
  ELSE IF AUTH_STORAGE_KEY \notin DOMAIN storage THEN Undefined
  ELSE IF storage[AUTH_STORAGE_KEY] = Malformed THEN Undefined
  ELSE IF IsBlank(Field(storage[AUTH_STORAGE_KEY], "accessToken")) THEN Undefined
  ELSE Field(storage[AUTH_STORAGE_KEY], "accessToken")

\* resolveAccessToken(tokens?.accessToken)
AccessTokenNow ==
  resolveAccessToken(IF tokens = Null THEN Undefined ELSE tokens.accessToken,
                     sessionStorage)

getEffectiveStatus(overrides, community) ==
  LET rawStatus == IF community.id \in DOMAIN overrides
                     THEN overrides[community.id] ELSE community.status
  IN IF rawStatus = "ACTIVE" THEN "ACTIVE" ELSE "INACTIVE"

\* the count that updateCommunityCountForStatusChange sets
updateCommunityCountForStatusChange(previous, previousStatus, nextStatus) ==
  IF previousStatus = nextStatus \/ previous = Null THEN previous
  ELSE [previous EXCEPT
          !.activeCommunities = @ + (IF nextStatus = "ACTIVE" THEN 1 ELSE -1),
          !.inactiveCommunities = @ + (IF nextStatus = "INACTIVE" THEN 1 ELSE -1)]

NoToggle == [st |-> "idle"]
NoToast == "<none>"

InitCommunityList ==
  /\ communityCount = Null
  /\ statusOverrides = [k \in {} |-> "ACTIVE"]
  /\ statusUpdatingMap = [k \in {} |-> FALSE]
  /\ toggles = [c \in {ListedCommunity.id} |-> NoToggle]
  /\ countEffects = <<>>
  /\ toast = NoToast

\* variant: a sync starts whatever is in flight
syncCommunityCount_unguarded(effect, showError) ==
  [effect EXCEPT !.inFlight = TRUE, !.pending = Append(@, showError)]

\* syncCommunityCount up to its await
syncCommunityCount(effect, showError) ==
  IF effect.inFlight \/ effect.cancelled THEN effect
  ELSE [effect EXCEPT !.inFlight = TRUE, !.pending = Append(@, showError)]

\* the count effect runs (the component mounts, or t or tokens.accessToken
\* changed): the previous run is cleaned up, the cached count is shown and
\* the first sync starts
CountEffect ==
  /\ Len(countEffects) < MaxEffects
  /\ AccessTokenNow # Undefined
  /\ LET cached == readCommunityCountCache(sessionStorage)
         cleaned == [g \in DOMAIN countEffects |->
                       [countEffects[g] EXCEPT !.cancelled = TRUE]]
         effect == [cancelled |-> FALSE, inFlight |-> FALSE, pending |-> <<>>,
                    late |-> FALSE]
     IN /\ sessionStorage' = cached.storage
        /\ communityCount' = IF cached.value # Null THEN cached.value
                                                    ELSE communityCount
        /\ countEffects' = Append(cleaned, syncCommunityCount(effect, TRUE))
  /\ toast' = NoToast
  /\ UNCHANGED <<location, statusOverrides, statusUpdatingMap, toggles>>
  /\ UNCHANGED <<mounted, tokens, isLoggingOut, logoutTimer, cookie,
                 volatileRefreshToken, refreshInFlight, reqs, dispatched,
                 delivered, refreshAnswer>>
  /\ UNCHANGED <<cacheVars, hookVars, fnVars>>

\* the interval ticks, the window gets the focus or the document becomes
\* visible: the listeners of the run that is not cleaned up call
\* syncCommunityCount(false)
CountTrigger ==
  /\ countEffects # <<>>
  /\ ~countEffects[Len(countEffects)].cancelled
  /\ Len(countEffects[Len(countEffects)].pending) < MaxInFlight
  /\ countEffects' = [countEffects EXCEPT
                        ![Len(countEffects)] = syncCommunityCount(@, FALSE)]
  /\ toast' = NoToast
  /\ UNCHANGED <<location, communityCount, statusOverrides, statusUpdatingMap,
                 toggles>>
  /\ UNCHANGED <<authVars, cacheVars, hookVars, fnVars>>

\* fetchCommunityCount resolves for the oldest call of run g
CountResponse(g, payload) ==
  /\ g \in DOMAIN countEffects
  /\ countEffects[g].pending # <<>>
  /\ LET effect == countEffects[g]
         showError == Head(effect.pending)
         nextCount == normalizeCommunityCountData(payload)
     IN /\ countEffects' =
             [countEffects EXCEPT
                ![g] = [effect EXCEPT !.pending = Tail(@), !.inFlight = FALSE,
                                      !.late = @ \/ effect.cancelled]]
        /\ IF effect.cancelled THEN
             /\ toast' = NoToast
             /\ UNCHANGED <<communityCount, sessionStorage>>
           ELSE IF nextCount = Null THEN
             /\ toast' = IF showError THEN "error" ELSE NoToast
             /\ UNCHANGED <<communityCount, sessionStorage>>
           ELSE
             /\ sessionStorage' = writeCommunityCountCache(sessionStorage, nextCount)
             /\ communityCount' =
                  IF communityCount # Null /\ isSameCommunityCount(communityCount, nextCount)
                    THEN communityCount ELSE nextCount
             /\ toast' = NoToast
  /\ UNCHANGED <<location, statusOverrides, statusUpdatingMap, toggles>>
  /\ UNCHANGED <<mounted, tokens, isLoggingOut, logoutTimer, cookie,
                 volatileRefreshToken, refreshInFlight, reqs, dispatched,
                 delivered, refreshAnswer>>
  /\ UNCHANGED <<cacheVars, hookVars, fnVars>>

\* fetchCommunityCount rejects for the oldest call of run g
CountFails(g) ==
  /\ g \in DOMAIN countEffects
  /\ countEffects[g].pending # <<>>
  /\ LET effect == countEffects[g]
     IN /\ countEffects' =
             [countEffects EXCEPT
                ![g] = [effect EXCEPT !.pending = Tail(@), !.inFlight = FALSE,
                                      !.late = @ \/ effect.cancelled]]
        /\ toast' = IF ~effect.cancelled /\ Head(effect.pending) THEN "error"
                                                                 ELSE NoToast
  /\ UNCHANGED <<location, communityCount, statusOverrides, statusUpdatingMap,
                 toggles>>
  /\ UNCHANGED <<authVars, cacheVars, hookVars, fnVars>>

\* handleToggleCommunityStatus up to its await; the switch is there once the
\* component has rendered and its effects have run, is disabled while the
\* community is updating and hands over the status that is not shown.
\* shown: what was displayed when the switch was used
handleToggleCommunityStatus(community, nextStatus) ==
  LET currentStatus == getEffectiveStatus(statusOverrides, community)
  IN /\ countEffects # <<>>
     /\ ~(community.id \in DOMAIN statusUpdatingMap /\ statusUpdatingMap[community.id])
     /\ AccessTokenNow # Undefined
     /\ currentStatus # nextStatus
     /\ statusOverrides' = setItem(statusOverrides, community.id, nextStatus)
     /\ communityCount' =
          updateCommunityCountForStatusChange(communityCount, currentStatus, nextStatus)
     /\ statusUpdatingMap' = setItem(statusUpdatingMap, community.id, TRUE)
     /\ toggles' = [toggles EXCEPT ![community.id] =
                      [st |-> "updating", currentStatus |-> currentStatus,
                       nextStatus |-> nextStatus,
                       shown |-> [status |-> currentStatus, count |-> communityCount]]]
     /\ toast' = NoToast
     /\ UNCHANGED <<location, countEffects>>
     /\ UNCHANGED <<authVars, cacheVars, hookVars, fnVars>>

\* updateCommunityStatus resolves; status is response.data?.status
StatusUpdated(community, status) ==
  /\ toggles[community.id].st = "updating"
  /\ LET nextStatus == toggles[community.id].nextStatus
         resolvedStatus == IF status = "ACTIVE" THEN "ACTIVE" ELSE "INACTIVE"
     IN IF resolvedStatus # nextStatus
          THEN /\ statusOverrides' = setItem(statusOverrides, community.id, resolvedStatus)
               /\ communityCount' =
                    updateCommunityCountForStatusChange(communityCount, nextStatus,
                                                        resolvedStatus)
          ELSE UNCHANGED <<statusOverrides, communityCount>>
  /\ toast' = "success"
  /\ statusUpdatingMap' = setItem(statusUpdatingMap, community.id, FALSE)
  /\ toggles' = [toggles EXCEPT ![community.id] = NoToggle]
  /\ UNCHANGED <<location, countEffects>>
  /\ UNCHANGED <<authVars, cacheVars, hookVars, fnVars>>

\* updateCommunityStatus rejects: the catch block rolls back
StatusUpdateFails(community) ==
  /\ toggles[community.id].st = "updating"
  /\ LET currentStatus == toggles[community.id].currentStatus
         nextStatus == toggles[community.id].nextStatus
     IN /\ statusOverrides' = setItem(statusOverrides, community.id, currentStatus)
        /\ communityCount' =
             updateCommunityCountForStatusChange(communityCount, nextStatus,
                                                 currentStatus)
  /\ toast' = "error"
  /\ statusUpdatingMap' = setItem(statusUpdatingMap, community.id, FALSE)
  /\ toggles' = [toggles EXCEPT ![community.id] = NoToggle]
  /\ UNCHANGED <<location, countEffects>>
  /\ UNCHANGED <<authVars, cacheVars, hookVars, fnVars>>

(***************************************************************************)
(* Navigation.  A request for a matched pathname passes the middleware,    *)
(* which redirects it or lets the page be shown; the provider mounts under *)
(* the first page shown; the community list, once shown under the mounted  *)
(* provider, pushes /login when isAuthenticated is false.                  *)
(***************************************************************************)
InitUi == location = [pathname |-> <<"/">>, shown |-> TRUE] /\ InitCommunityList

\* the browser requests location.pathname
Navigate ==
  /\ ~location.shown
  /\ LET answer == middleware(location.pathname, IF cookie THEN "1" ELSE Undefined)
     IN location' = IF "redirect" \in DOMAIN answer
                      THEN [pathname |-> answer.redirect, shown |-> FALSE]
                      ELSE [location EXCEPT !.shown = TRUE]
  /\ UNCHANGED <<authVars, cacheVars, hookVars, fnVars, listVars>>

\* the effect of CommunityList that guards the page
AuthRedirect ==
  /\ location.shown /\ mounted
  /\ StartsWith(location.pathname, CommunitiesPath)
  /\ ~isAuthenticated
  /\ location' = [pathname |-> LoginPath, shown |-> FALSE]
  /\ UNCHANGED <<authVars, cacheVars, hookVars, fnVars, listVars>>

\* the provider mounts under a page that is shown
MountShown == location.shown /\ Mount

(***************************************************************************)
(* Specifications.                                                         *)
(***************************************************************************)
\* the session pipeline
Init == InitAuth /\ InitCacheWith({{}}) /\ InitHook /\ InitFn /\ InitUi
Next ==
  \/ Mount
  \/ \E i \in Slots : \E kind \in KindsOf(i) : StartRequest(i, kind)
  \/ \E i \in Slots : \E resp \in Responses(reqs[i].kind) : RequestResponse(i, resp)
  \/ \E resp \in Responses("refresh") : RefreshResponse(resp)
  \/ LogoutStart
  \/ LogoutFinish
  \/ Reload
Spec == Init /\ [][Next]_vars

\* the list cache over time, for two searches
CacheParamSets == { {Params("a", DefaultLimit, Undefined, "A1"),
                     Params("b", DefaultLimit, Undefined, "A1")} }
InitCache == InitAuth /\ InitCacheWith(CacheParamSets) /\ InitHook /\ InitFn /\ InitUi
NextCache ==
  \/ \E c \in Callers : \E params \in paramSets : FetchCall(c, params)
  \/ \E id \in DOMAIN fetches : \E o \in Outcomes(fetches[id].query) : FetchSettles(id, o)
  \/ \E d \in {15000, 16000} : Tick(d)
SpecCache == InitCache /\ [][NextCache]_vars

\* cache keys over every pair of parameter sets the hook can pass; time
\* advances in steps that let an entry expire
KeyParamSets == { {p, q} : p, q \in HookParams } \ { {p} : p \in HookParams }
InitKeys == InitAuth /\ InitCacheWith(KeyParamSets) /\ InitHook /\ InitFn /\ InitUi
NextKeys ==
  \/ \E c \in Callers : \E params \in paramSets : FetchCall(c, params)
  \/ \E id \in DOMAIN fetches :
       \E o \in {Rejected, Fulfilled([query |-> fetches[id].query, version |-> 1])} :
         FetchSettles(id, o)
  \/ Tick(CACHE_TTL_MS + 1000)
SpecKeys == InitKeys /\ [][NextKeys]_vars

\* the list held by useCommunities
InitList == InitAuth /\ InitCacheWith({{}}) /\ InitHook /\ InitFn /\ InitUi
NextList ==
  \/ LoadEffect /\ UNCHANGED <<staleMores, staleDropped>>
  \/ \E l \in loads : \E page \in Pages :
       LoadResolves(l, page) /\ UNCHANGED <<staleMores, staleDropped>>
  \/ \E l \in loads : LoadRejects(l) /\ UNCHANGED <<staleMores, staleDropped>>
  \/ \E m \in 1..MaxMore : LoadMore(m) /\ UNCHANGED <<staleMores, staleDropped>>
  \/ \E m \in 1..MaxMore : \E page \in Pages :
       MoreResolves(m, page) /\ UNCHANGED <<staleMores, staleDropped>>
  \/ \E m \in 1..MaxMore : MoreRejects(m) /\ UNCHANGED <<staleMores, staleDropped>>
SpecList == InitList /\ [][NextList]_vars

\* the list held by useCommunities while its inputs change, with the history
\* of its requests; the pages hold at most one item
ShortPages == {page \in Pages : Len(page.data) <= 1}
NextLoads ==
  \/ Tracked(LoadEffect, AwaitingMores, FALSE)
  \/ \E l \in loads : \E page \in ShortPages :
       Tracked(LoadResolves(l, page), staleMores, l.seq # loadSeq)
  \/ \E l \in loads : Tracked(LoadRejects(l), staleMores, l.seq # loadSeq)
  \/ \E m \in 1..MaxMore : Tracked(LoadMore(m), staleMores, FALSE)
  \/ \E m \in 1..MaxMore : \E page \in ShortPages :
       Tracked(MoreResolves(m, page), staleMores \ {m}, FALSE)
  \/ \E m \in 1..MaxMore : Tracked(MoreRejects(m), staleMores \ {m}, FALSE)
SpecLoads == InitList /\ [][NextLoads]_vars

\* the session pipeline started in a tab as the browser can hand it over:
\* the cookie is shared by the tabs and sessionStorage belongs to this one,
\* so the cookie may be set or not whatever the record is: missing, valid,
\* with a blank access token, or not JSON
InitBrowser ==
  /\ cookie \in BOOLEAN
  /\ sessionStorage \in
       {EmptyStorage} \cup
       {setItem(EmptyStorage, AUTH_STORAGE_KEY, v) :
          v \in {StoredAuthSession(LoginData("A1", "R1", "E1", "F1")),
                 StoredAuthSession(LoginData(" ", "R1", "E1", "F1")),
                 Malformed}}
  /\ mounted = FALSE /\ tokens = Null
  /\ isLoggingOut = FALSE /\ logoutTimer = FALSE
  /\ volatileRefreshToken = NullTok /\ refreshInFlight = NoPromise
  /\ reqs = [i \in Slots |-> IdleReq]
  /\ dispatched = <<>> /\ delivered = <<>> /\ refreshAnswer = 0
InitTabs == InitBrowser /\ InitCacheWith({{}}) /\ InitHook /\ InitFn /\ InitUi
SpecTabs == InitTabs /\ [][Next]_vars

\* the session pipeline with bearer calls whose failed answers vary in
\* transport status and message
NextFailures ==
  \/ Mount
  \/ \E i \in Slots : \E kind \in KindsOf(i) \ {"refresh"} : StartRequest(i, kind)
  \/ \E i \in Slots :
       \E resp \in (IF reqs[i].kind = "api" THEN FailureResponses
                                            ELSE Responses(reqs[i].kind)) :
         RequestResponse(i, resp)
  \/ \E resp \in Responses("refresh") : RefreshResponse(resp)
SpecFailures == Init /\ [][NextFailures]_vars

\* navigation, from /login or a /communities path, with the cookie and the
\* session record as the browser can hand them over
InitNav ==
  /\ InitBrowser /\ InitCacheWith({{}}) /\ InitHook /\ InitFn /\ InitCommunityList
  /\ location \in [pathname : {q \in RequestPaths : Matches(q)}, shown : {FALSE}]
NextNav ==
  \/ Navigate
  \/ MountShown
  \/ AuthRedirect
SpecNav == InitNav /\ [][NextNav]_vars /\ WF_vars(NextNav)

\* the community list of a signed-in admin; the tab may hold a count cached
\* by an earlier visit, or one that is not JSON
SignedIn == LoginData("A1", "R1", "E1", "F1")
InitCount ==
  /\ mounted = TRUE /\ tokens = SignedIn /\ cookie = TRUE
  /\ sessionStorage \in
       LET session == setItem(EmptyStorage, AUTH_STORAGE_KEY, StoredAuthSession(SignedIn))
       IN {session} \cup
          {setItem(session, COMMUNITY_COUNT_CACHE_KEY, v) :
             v \in {CommunityCountData(3, 2, 1), Malformed}}
  /\ isLoggingOut = FALSE /\ logoutTimer = FALSE
  /\ volatileRefreshToken = SignedIn.refreshToken /\ refreshInFlight = NoPromise
  /\ reqs = [i \in Slots |-> IdleReq]
  /\ dispatched = <<>> /\ delivered = <<>> /\ refreshAnswer = 0
  /\ InitCacheWith({{}}) /\ InitHook /\ InitFn /\ InitUi
NextCount ==
  \/ CountEffect
  \/ CountTrigger
  \/ \E g \in DOMAIN countEffects : \E payload \in CountPayloads : CountResponse(g, payload)
  \/ \E g \in DOMAIN countEffects : CountFails(g)
  \/ \E nextStatus \in {"ACTIVE", "INACTIVE"} :
       handleToggleCommunityStatus(ListedCommunity, nextStatus)
  \/ \E status \in {"ACTIVE", "INACTIVE", Undefined} : StatusUpdated(ListedCommunity, status)
  \/ StatusUpdateFails(ListedCommunity)
SpecCount == InitCount /\ [][NextCount]_vars

\* the pure functions
FnCalls == dedupeByIdCalls \cup normalizeLoginDataCalls \cup middlewareCalls
InitPure ==
  /\ InitAuth /\ InitCacheWith({{}}) /\ InitHook /\ InitUi
  /\ fnCall \in FnCalls
  /\ fnResult = Null
NextPure ==
  \/ CallDedupeById
  \/ CallNormalizeLoginData
  \/ CallMiddleware
SpecPure == InitPure /\ [][NextPure]_vars

(***************************************************************************)
(* Properties of the list cache.                                           *)
(***************************************************************************)
Called == "key" \in DOMAIN invoked
Age(cacheKey) == now - communitiesCache[cacheKey].ts

\* C7 (as stated): a fetchWithCache call made within 30 s of the call that
\* issued the network call for the same parameters issues none, and one made
\* more than 30 s (31 s) after that call issues a second network call.
C7_TtlFromFirstCall ==
  [][(Called' /\ invoked'.key \in DOMAIN issuedAt)
       => /\ (now - issuedAt[invoked'.key] <= CACHE_TTL_MS) => ~invoked'.fetched
          /\ (now - issuedAt[invoked'.key] > CACHE_TTL_MS) => invoked'.fetched]_vars

\* C7 (amended): a fetchWithCache call issues no network call exactly when
\* an identical call is still pending or a response for the same parameters
\* was cached at most CACHE_TTL_MS ago, the age being counted from the
\* arrival of that response; so a call made more than 30 s after the
\* response was cached, with none pending, issues a new network call.
C7_TtlFromResponse ==
  [][ /\ Called' =>
          (invoked'.fetched <=>
             ~(\/ invoked'.key \in DOMAIN communitiesInFlight
               \/ (invoked'.key \in DOMAIN communitiesCache
                     /\ Age(invoked'.key) <= CACHE_TTL_MS)))
      /\ \A c \in DOMAIN returned' :
           (~Called' /\ returned'[c].outcome.ok)
           => communitiesCache'[getCacheKey(returned'[c].params)]
                = [ts |-> now, payload |-> returned'[c].outcome.payload]]_vars

\* a call found an entry older than the TTL and went to the network
C7_Witness ==
  /\ Called
  /\ invoked.fetched
  /\ invoked.key \in DOMAIN communitiesCache
  /\ Age(invoked.key) > CACHE_TTL_MS

Awaiting(c) == callers[c].st = "awaiting"

\* C8: the in-flight map holds a key exactly while the network call for that
\* key is pending, there is one such call per key and every caller awaiting
\* that key awaits it; when it settles all of them receive the same outcome,
\* the entry is removed, and a failure leaves the TTL cache unchanged.
C8_SharedInFlight ==
  [][ /\ \A k \in DOMAIN communitiesInFlight' :
          /\ communitiesInFlight'[k] \in DOMAIN fetches'
          /\ fetches'[communitiesInFlight'[k]].status = Unsettled
          /\ fetches'[communitiesInFlight'[k]].key = k
      /\ \A id \in DOMAIN fetches' :
          fetches'[id].status = Unsettled
          => /\ fetches'[id].key \in DOMAIN communitiesInFlight'
             /\ communitiesInFlight'[fetches'[id].key] = id
      /\ \A c \in Callers :
          (callers'[c].st = "awaiting")
          => /\ getCacheKey(callers'[c].params) \in DOMAIN communitiesInFlight'
             /\ callers'[c].request = communitiesInFlight'[getCacheKey(callers'[c].params)]
      /\ \A c \in Callers :
          (Awaiting(c) /\ c \in DOMAIN returned')
          => /\ getCacheKey(callers[c].params) \notin DOMAIN communitiesInFlight'
             /\ \A d \in Callers :
                  (Awaiting(d) /\ getCacheKey(callers[d].params) = getCacheKey(callers[c].params))
                  => (d \in DOMAIN returned'
                        /\ returned'[d].outcome = returned'[c].outcome)
             /\ ~returned'[c].outcome.ok => communitiesCache' = communitiesCache
    ]_vars

\* two callers shared a network call that failed
C8_Witness ==
  /\ \E c, d \in DOMAIN returned :
       c # d /\ ~returned[c].outcome.ok /\ ~returned[d].outcome.ok
  /\ communitiesInFlight = NoMap

\* C9: the parameter sets the hook passes have pairwise different cache
\* keys; a cache entry, an in-flight promise and every payload handed to a
\* caller were fetched with exactly the caller's own search, limit, cursor
\* and token.
C9_KeySeparatesParams ==
  /\ \A p, q \in paramSets : p # q => getCacheKey(p) # getCacheKey(q)
  /\ \A p \in paramSets :
       getCacheKey(p) \in DOMAIN communitiesCache
       => communitiesCache[getCacheKey(p)].payload.query = NetworkQuery(p)
  /\ \A c \in Callers :
       Awaiting(c) => fetches[callers[c].request].query = NetworkQuery(callers[c].params)
  /\ \A c \in DOMAIN returned :
       returned[c].outcome.ok
       => returned[c].outcome.payload.query = NetworkQuery(returned[c].params)

\* a caller is served while the cache holds a fresh entry fetched under a
\* different token for otherwise equal parameters
C9_Witness ==
  \E c \in DOMAIN returned : \E q \in paramSets :
    /\ returned[c].outcome.ok
    /\ q.token # returned[c].params.token
    /\ [q EXCEPT !.token = returned[c].params.token] = returned[c].params
    /\ IsFresh(communitiesCache, getCacheKey(q), now)

(***************************************************************************)
(* Properties of the held list.                                            *)
(***************************************************************************)
\* C10 (as stated): the held list never contains two items with the same id.
C10_NoDuplicateIds == ~HasDuplicate(communities)

\* C10 (amended): the held list contains no two items with the same id as
\* long as no page applied since the list was last replaced repeated an id
\* within itself.
C10_NoDuplicateIdsForCleanPages == ~dupPage => ~HasDuplicate(communities)

\* a page overlapping the held list has just been merged
C10_Witness ==
  /\ overlapMerged
  /\ ~dupPage
  /\ Len(communities) >= 2

\* C26 (as stated): a page awaited by a loadMore call that was made before
\* the search term last changed is neither merged into the held list nor
\* used to set nextCursor.
C26_StaleMoreDropped ==
  [][\A m \in 1..MaxMore :
       (mores[m].st = "awaiting" /\ m \in staleMores /\ mores'[m] = NoLoad)
         => (communities' = communities /\ nextCursor' = nextCursor)]_vars

Called_dedupeById == fnCall # NoCall /\ fnCall.fn = "dedupeById" /\ fnResult # Null

\* C11: dedupeById(previous, incoming) starts with previous, item for item,
\* and continues with exactly the items of incoming whose id does not occur
\* in previous, each at the position its rank among them gives it; and
\* [1,2] merged with [2,3] is [1,2,3].
C11_MergeKeepsOrder ==
  Called_dedupeById =>
    LET prev == fnCall.previous
        inc == fnCall.incoming
        merged == fnResult.returned
        kept == {i \in 1..Len(inc) : \A j \in 1..Len(prev) : prev[j].id # inc[i].id}
        rank(i) == Cardinality({j \in kept : j <= i})
    IN /\ Len(merged) = Len(prev) + Cardinality(kept)
       /\ \A j \in 1..Len(prev) : merged[j] = prev[j]
       /\ \A i \in kept : merged[Len(prev) + rank(i)] = inc[i]
       /\ (prev = <<Community(1, 1), Community(2, 1)>>
             /\ inc = <<Community(2, 1), Community(3, 1)>>)
          => merged = <<Community(1, 1), Community(2, 1), Community(3, 1)>>

\* [1,2] was merged with a page that holds another revision of 2, and 3
C11_Witness ==
  /\ Called_dedupeById
  /\ fnCall.previous = <<Community(1, 1), Community(2, 1)>>
  /\ fnCall.incoming = <<Community(2, 2), Community(3, 1)>>
  /\ fnResult.returned = <<Community(1, 1), Community(2, 1), Community(3, 1)>>

Called_normalizeLoginData ==
  fnCall # NoCall /\ fnCall.fn = "normalizeLoginData" /\ fnResult # Null

\* C12: normalizeLoginData returns the same LoginData for the camelCase
\* root payload and for the nested snake_case payload that carry the same
\* values: the two tokens as carried and the expiries as strings; and it
\* throws when the access token or the refresh token is absent (or null or
\* empty).
C12_ShapesNormalizeAlike ==
  Called_normalizeLoginData =>
    LET v == fnCall.values
        text(x) == IF x \in {Undefined, NullTok} THEN ""
                   ELSE IF x = "number:17" THEN "17" ELSE x
    IN IF v.accessToken \in {Undefined, NullTok, ""}
            \/ v.refreshToken \in {Undefined, NullTok, ""}
         THEN fnResult = Thrown
         ELSE fnResult = Returned([accessToken |-> v.accessToken,
                                   refreshToken |-> v.refreshToken,
                                   accessTokenExpiresAt |-> text(v.accessTokenExpiresAt),
                                   refreshTokenExpiresAt |-> text(v.refreshTokenExpiresAt)])

\* a nested snake_case payload with a numeric expiry was normalized
C12_Witness ==
  /\ Called_normalizeLoginData
  /\ fnCall.shape = "snakeNested"
  /\ fnCall.values.accessTokenExpiresAt = "number:17"
  /\ fnResult = Returned(LoginData("A1", "R1", "17", "F1"))

Called_middleware == fnCall # NoCall /\ fnCall.fn = "middleware" /\ fnResult # Null

\* C20: for a request the matcher hands to the middleware: a path other
\* than /login (that is, /communities or a path below it) is redirected to
\* /login unless the cookie value is exactly "1"; /login is redirected to
\* /communities when it is "1"; every other request passes through.
C20_RouteGuard ==
  Called_middleware =>
    LET signedIn == fnCall.cookieValue = "1"
        guarded == fnCall.pathname # LoginPath
    IN /\ (guarded /\ ~signedIn) => fnResult.returned = Redirect(LoginPath)
       /\ (~guarded /\ signedIn) => fnResult.returned = Redirect(CommunitiesPath)
       /\ (guarded <=> signedIn) => fnResult.returned = PassThrough

\* a request below /communities carrying a cookie other than "1" was
\* redirected to /login
C20_Witness ==
  /\ Called_middleware
  /\ fnCall.pathname = CommunitiesPath \o <<"/", "7", "/", "e">>
  /\ fnCall.cookieValue = "true"
  /\ fnResult.returned = Redirect(LoginPath)

\* C25: once AuthProvider has mounted, the auth-state cookie is set if and
\* only if sessionStorage holds a session record with a non-blank access
\* token.
C25_CookieIffSession ==
  mounted =>
    (cookie <=> (HasSession
                 /\ Field(sessionStorage[AUTH_STORAGE_KEY], "accessToken")
                      \notin {Undefined, "", " "}))

\* C23: from a state in which a logout, forced or explicit, has removed the
\* session record and cleared the in-memory refresh token while a refresh
\* call was in flight, every step other than the completion of a login
\* leaves the record absent and the refresh token null.
C23_ClearedStaysCleared ==
  [][(/\ ~HasSession
      /\ volatileRefreshToken = NullTok
      /\ refreshInFlight = Pending
      /\ ~\E i \in Slots : /\ reqs[i].kind = "login"
                            /\ reqs[i].st = "fetching"
                            /\ reqs'[i].st = "resolved")
     => (~HasSession' /\ volatileRefreshToken' = NullTok)]_vars

(***************************************************************************)
(* Properties of navigation.                                               *)
(***************************************************************************)
\* a page is shown under the mounted provider and its guard pushes nothing
NavSettled ==
  /\ location.shown /\ mounted
  /\ StartsWith(location.pathname, CommunitiesPath) => isAuthenticated

Answered(i) == reqs[i].st = "fetching" /\ reqs'[i].answer # NoAnswer

\* no refresh call is started, nothing of the session changes and no auth
\* event is dispatched
SessionUntouched ==
  /\ refreshInFlight' = refreshInFlight
  /\ RefreshCallsInFlight' <= RefreshCallsInFlight
  /\ dispatched' = <<>>
  /\ sessionStorage' = sessionStorage
  /\ volatileRefreshToken' = volatileRefreshToken
  /\ tokens' = tokens
  /\ cookie' = cookie

\* C21: the step that handles an answer with a transport status outside
\* 200..299 and a code that is neither 498 nor, with the retry enabled, 419
\* rejects the call with the payload's message when that is a non-blank
\* string and with "Request failed with status <status>" otherwise; the
\* call is not sent again, no refresh call is started, the session is left
\* as it was and no logout event is dispatched.
C21_OtherFailureRejectsWithMessage ==
  [][\A i \in Slots :
       (Answered(i)
          /\ ~(reqs'[i].answer.status \in 200..299)
          /\ reqs'[i].answer.code # FatalCode
          /\ ~(reqs[i].retryOn419 /\ reqs'[i].answer.code = RecoverableCode))
       => LET a == reqs'[i].answer
              message == Field(a.body, "message")
          IN /\ reqs'[i].st = "rejected"
             /\ reqs'[i].error =
                  IF message \in {"m"} THEN message
                  ELSE IF a.status = 404 THEN "Request failed with status 404"
                  ELSE "Request failed with status 500"
             /\ reqs'[i].calls = reqs[i].calls
             /\ SessionUntouched]_vars

\* a retried call was answered 404 with code 419 and a blank message
C21_Witness ==
  \E i \in Slots :
    /\ reqs[i].st = "rejected" /\ reqs[i].calls = 2
    /\ reqs[i].code = RecoverableCode
    /\ reqs[i].answer # NoAnswer
    /\ reqs[i].answer.body = [message |-> " "]
    /\ reqs[i].error = "Request failed with status 404"

\* C22: the code of the payload decides before the transport status is
\* looked at.  The step that handles an answer with code 498 forces the
\* logout and rejects the call, and the step that handles a first-attempt
\* answer with code 419 makes the call await a refresh when a refresh token
\* is held (and rejects it as expired when none is), whether the status is
\* in 200..299 or not; in neither case is the error the one built from the
\* transport status.
C22_CodeDecidesBeforeStatus ==
  [][\A i \in Slots :
       Answered(i) =>
         LET a == reqs'[i].answer
         IN /\ a.code = FatalCode
                 => /\ reqs'[i].st = "rejected"
                    /\ reqs'[i].calls = reqs[i].calls
                    /\ dispatched' = <<FORCE_LOGOUT>>
                    /\ AUTH_STORAGE_KEY \notin DOMAIN sessionStorage'
                    /\ volatileRefreshToken' = NullTok
                    /\ reqs'[i].error \in {"m", "Session invalid. Please log in again."}
            /\ (a.code = RecoverableCode /\ reqs[i].retryOn419)
                 => IF volatileRefreshToken # NullTok
                      THEN /\ reqs'[i].st = "refreshing"
                           /\ refreshInFlight' = Pending
                           /\ reqs'[i].error = NoError
                           /\ dispatched' = <<>>
                      ELSE /\ reqs'[i].st = "rejected"
                           /\ reqs'[i].error
                                \in {"m", "Session expired. Please log in again."}]_vars

\* an answer with status 500 and code 419 made a call start a refresh
C22_Witness ==
  \E i \in Slots :
    /\ reqs[i].st = "refreshing" /\ reqs[i].startedRefresh
    /\ reqs[i].answer # NoAnswer
    /\ reqs[i].answer.status = 500
    /\ reqs[i].answer.code = RecoverableCode
    /\ refreshInFlight = Pending

\* C28: the step in which a call fails because code 419 arrives, with the
\* retry enabled, while no refresh token is held leaves the session record,
\* the auth-state cookie, the in-memory refresh token and the in-flight
\* refresh slot as they were and dispatches no auth event.
C28_NoRefreshTokenFailureKeepsSession ==
  [][\A i \in Slots :
       (/\ Answered(i)
        /\ reqs[i].retryOn419
        /\ getPayloadCode(reqs'[i].answer) = RecoverableCode
        /\ volatileRefreshToken = NullTok)
       => /\ reqs'[i].st = "rejected"
          /\ SessionUntouched]_vars

\* a session restored after a reload holds no refresh token; a call made
\* with it was answered 419 and failed, the record and the cookie in place
C28_Witness ==
  \E i \in Slots :
    /\ reqs[i].st = "rejected"
    /\ reqs[i].answer # NoAnswer
    /\ getPayloadCode(reqs[i].answer) = RecoverableCode
    /\ reqs[i].calls = 1
    /\ reqs[i].error = "Session expired. Please log in again."
    /\ HasSession /\ cookie /\ isAuthenticated
    /\ volatileRefreshToken = NullTok
    /\ dispatched = <<>>

(***************************************************************************)
(* Properties of the community list.                                       *)
(***************************************************************************)
\* C29 (as stated): when a status update fails, the status displayed for the
\* community and the displayed counts after the rollback are those displayed
\* before the switch was used, whatever count responses arrived in between;
\* and no step of a toggle changes totalCommunities or the sum of
\* activeCommunities and inactiveCommunities.
C29_RollbackRestoresDisplay ==
  [][\A c \in DOMAIN toggles :
       /\ (toggles[c].st = "updating" /\ toggles'[c].st = "idle" /\ toast' = "error")
            => /\ getEffectiveStatus(statusOverrides', ListedCommunity)
                    = toggles[c].shown.status
               /\ communityCount' = toggles[c].shown.count
       /\ (toggles'[c] # toggles[c] /\ communityCount # Null)
            => /\ communityCount' # Null
               /\ communityCount'.totalCommunities = communityCount.totalCommunities
               /\ communityCount'.activeCommunities + communityCount'.inactiveCommunities
                    = communityCount.activeCommunities + communityCount.inactiveCommunities]_vars

\* C30: a run of the count effect never awaits more than one
\* fetchCommunityCount call, whatever triggers fire while one is pending; and
\* the step that handles an answer for a run that was cleaned up leaves the
\* displayed count and sessionStorage (the count cache) as they were.
C30_OneCountRequestPerEffect ==
  [][\A g \in DOMAIN countEffects' :
       /\ Len(countEffects'[g].pending) <= 1
       /\ (/\ g \in DOMAIN countEffects
           /\ countEffects[g].cancelled
           /\ Len(countEffects'[g].pending) < Len(countEffects[g].pending))
          => /\ communityCount' = communityCount
             /\ sessionStorage' = sessionStorage]_vars

\* the answer for the first run arrived after its cleanup, while the second
\* run awaits its own call; nothing is displayed or cached
C30_Witness ==
  /\ Len(countEffects) >= 2
  /\ countEffects[1].late /\ countEffects[1].pending = <<>>
  /\ countEffects[2].inFlight /\ Len(countEffects[2].pending) = 1
  /\ communityCount = Null
  /\ COMMUNITY_COUNT_CACHE_KEY \notin DOMAIN sessionStorage
====
